---- MODULE Spec2Model ----
(***************************************************************************)
(* Model of panurge's authentication and observability core:               *)
(*   - navigaid.JWKS: the key-set cache behind getKey (jwks.go)            *)
(*   - navigaid.getAuthToken / HTTPMiddleware / TwirpAuthenticate          *)
(*   - navigaid.GetAuth / SetAuth (request-scoped authentication result)   *)
(*   - panurge.CombineMetricsAndAuthHooks / NewTwirpMetricsHooks           *)
(*                                                                         *)
(* Spec     : concurrent callers of JWKS.getKey, with a clock.             *)
(* ValidateSpec : concurrent callers of JWKS.ValidateToken, each running   *)
(*            getKey inside the key function of the token parser.          *)
(* HeaderSpec : HTTP requests with any Authorization header value passing  *)
(*            through HTTPMiddleware.                                      *)
(* ContextSpec : contexts derived from one another with SetAuth and read   *)
(*            with GetAuth.                                                *)
(* HookSpec : requests passing through the Twirp hook pipeline and the     *)
(*            HTTP middleware.                                             *)
(* PermissionSpec : permission checks on claims (navigaid/claims.go).      *)
(* SetupSpec : NewTwirpMetricsHooks, StandardTwirpHooks, NewStandardApp.   *)
(* MiddlewareSpec : HTTP requests through HTTPMiddleware, any token.       *)
(* AnnotationSpec / AccessorSpec : one ContextAnnotations bag used by one  *)
(*            thread / by several threads (http.go).                       *)
(* TestEnvSpec / EnvLockSpec : one TestEnv / several TestEnv values        *)
(*            (pt/env.go).                                                 *)
(* CloseSpec : closers closed with SafeFailingClose (log.go).               *)
(* ExponentSpec : jwksKey.eAsInt on exponents of any length (jwks.go).     *)
(* FairSpec : the callers of getKey under fair scheduling.                 *)
(* DurationSpec : Twirp requests through the metrics hooks, with a clock.  *)
(***************************************************************************)
EXTENDS Integers, Sequences, FiniteSets, TLC

VARIABLES
    now,              \* time.Now(), in clock ticks
    ttl,              \* JWKS.ttl
    m,                \* JWKS.m: 0 when unlocked, else the caller holding it
    jwksStaleAfter,   \* JWKS.jwksStaleAfter
    jwks,             \* JWKS.jwks
    pc,               \* position of each getKey caller
    kid,              \* getKey's argument, per caller
    res,              \* (res, err) of fetchJWKS in the call that holds the lock
    ret,              \* what a caller's getKey call returned (while pc = "done")
    seen,             \* what the call holding the lock observed at its staleness check
    fetches,          \* history: fetches started, failed, started when the last
                      \* successful one returned, the status of the latest, which
                      \* fetch succeeded first and the jwksStaleAfter it set
    calledStale,      \* per caller: the cache was stale when the call began (history)
    calls,            \* number of getKey calls made so far
    authHook,         \* the auth hooks given to CombineMetricsAndAuthHooks
    metricsHook,      \* the metrics hooks given to CombineMetricsAndAuthHooks
    requestsReceived, \* rpc_requests_total, per organisation label
    responsesSent,    \* rpc_responses_total, per status and organisation label
    duration,         \* rpc_duration: number of observations, per organisation label
    stage,            \* position of each request in its pipeline
    rctx,             \* the context of each request
    rerr,             \* the error of each request's RequestRouted hook so far
    hist,             \* per request: what its stages did (history)
    started,          \* number of requests started so far
    vtok,             \* ValidateToken's token argument, per caller
    vtype,            \* ValidateToken's tokenType argument, per caller
    vret,             \* what a caller's ValidateToken call returned
    cancelled,        \* per caller: the context of the caller's request is done
    ctxs,             \* the contexts made so far: each its parent and its own value
                      \* for authInfoKey
    got,              \* the latest GetAuth call: the context read and what was returned
    permissions,      \* Claims.Permissions of the claims whose permissions are checked
    checked,          \* the latest permission check: its arguments and its result
    registered,       \* the names of the collectors registered in the Registerer
    setups,           \* the calls that set up hooks or an application, and their results
    hookErr,          \* the error the RequestRouted hook returned for the latest request
    standalone,       \* ContextAnnotations.standalone
    bag,              \* ContextAnnotations: id, user, and the addresses of the maps
                      \* annotations and metadata
    segment,          \* the xray.Segment of the bag: TraceID, User, and the addresses of
                      \* the maps Annotations and Metadata["default"]
    heap,             \* the maps in memory, by address
    bagM,             \* ContextAnnotations.m: 0 when unlocked, else the thread holding it
    segM,             \* the lock of the segment: 0 when unlocked, else the thread holding it
    tpc,              \* position of each thread in the accessor it runs
    top,              \* the accessor call each thread makes, with its arguments
    tret,             \* what the latest accessor call of each thread returned
    accesses,         \* number of accessor calls made on the bag so far
    environ,          \* the environment of the process: each variable's value, or NotSet
    envLock,          \* envLock: TRUE when locked
    te,               \* the TestEnv values: initOnce, cleanupOnce, replaced, unset
    fatal,            \* the process died of a fatal error of the runtime
    acquirer,         \* the TestEnv whose init locked envLock, 0 when it is unlocked
    sets,             \* per TestEnv and variable, the number of Set calls that set it
    before,           \* per TestEnv and variable, its state before the first Set on it
    elast,            \* the latest call on a TestEnv and how it ended
    outErr,           \* *outErr, the error the function of the deferred closes returns
    logEntries,       \* what the ErrorLogger of SafeFailingClose was given to log
    closes,           \* number of Close calls made on the closers
    lclose,           \* the latest SafeFailingClose call: name, close error, *outErr before
    logged,           \* the records logged by the hooks of NewErrorLoggingHooks
    errEvent,         \* the latest Error event: the error, and the context before and after
    ekey,             \* the decoded exponent of a jwksKey, or that j.E does not decode
    eret              \* what eAsInt returned for it

jvars == <<now, ttl, m, jwksStaleAfter, jwks, pc, kid, res, ret, seen, fetches,
          calledStale, calls>>

hvars == <<authHook, metricsHook, requestsReceived, responsesSent, duration, stage, rctx,
          rerr, hist, started>>

tvars == <<vtok, vtype, vret, cancelled>>

cvars == <<ctxs, got>>

pvars == <<permissions, checked>>

\* the state of the helpers around the authentication core
svars == <<registered, setups, hookErr>>

avars == <<standalone, bag, segment, heap, bagM, segM, tpc, top, tret, accesses>>

\* the environment and the TestEnv values (pt/env.go)
evars == <<environ, envLock, te, fatal, acquirer, sets, before, elast>>

\* the closers and the logs (log.go, NewErrorLoggingHooks)
lvars == <<outErr, logEntries, closes, lclose, logged, errEvent>>

\* the exponent of a key (jwksKey.eAsInt)
kvars == <<ekey, eret>>

xvars == <<lvars, kvars>>

uvars == <<pvars, svars, avars, evars, xvars>>

\* what the permission checks leave alone
PermissionUnused == <<jvars, hvars, tvars, cvars, svars, avars, evars, xvars>>

vars == <<jvars, hvars, tvars, cvars, uvars>>

-----------------------------------------------------------------------------
(* Bounds *)

NumCallers == 2
MaxCalls == 3
MaxTime == 2
MaxRequests == 2
MaxHeaderLen == 4
MaxContexts == 4

Callers == 1..NumCallers

-----------------------------------------------------------------------------
(* Key sets *)

NoKey == [Kid |-> "", Alg |-> "", N |-> ""]

KeyA == [Kid |-> "k1", Alg |-> "RS512", N |-> "nA"]
KeyB == [Kid |-> "k2", Alg |-> "RS512", N |-> "nB"]
KeyA2 == [Kid |-> "k1", Alg |-> "RS256", N |-> "nA2"]

\* jwksResponse documents the endpoint may serve
DocOne == <<KeyA>>
DocTwo == <<KeyB, KeyA2, KeyA>>
Docs == {DocOne, DocTwo}

\* defaultJwksTTL, ten minutes, in clock ticks of a minute
defaultJwksTTL == 10

\* values of JWKS.ttl given with WithJwksTTL, in clock ticks
TTLs == {0, 1}

Kids == {"k1", "k2"}

\* the zero value of JWKS.jwks
NilJwks == [nil |-> TRUE, Keys |-> <<>>]

\* What the HTTP exchange of one fetch can look like.
Responses ==
    {[transport |-> "error", status |-> 0, decodable |-> FALSE, doc |-> <<>>],
     [transport |-> "ok", status |-> 500, decodable |-> TRUE, doc |-> DocOne],
     [transport |-> "ok", status |-> 200, decodable |-> FALSE, doc |-> <<>>]}
    \cup {[transport |-> "ok", status |-> 200, decodable |-> TRUE, doc |-> d] : d \in Docs}

NoRes == [res |-> NilJwks, err |-> ""]

\* JWKS.fetchJWKS
fetchJWKS(resp) ==
    IF resp.transport # "ok"
    THEN [res |-> NilJwks, err |-> "transport"]
    ELSE IF resp.status # 200
    THEN [res |-> NilJwks, err |-> "server responded with"]
    ELSE IF ~resp.decodable
    THEN [res |-> NilJwks, err |-> "failed to decode JWKS response"]
    ELSE [res |-> [nil |-> FALSE, Keys |-> resp.doc], err |-> ""]

\* mutants of IsStale: the boundary instant counted as stale; staleness noticed late
IsStaleInclusive(t, staleAfter) == t >= staleAfter

IsStaleLate(t, staleAfter) == t > staleAfter + 1

\* time.Now().After(j.jwksStaleAfter)
IsStale(t, staleAfter) == t > staleAfter

\* time.Now().Add(j.ttl)
NewStaleAfter(t, d) == t + d

\* mutant of findKey: without a match the first key of the set is returned
findKeyOrFirst(keys, k) ==
    LET at == {i \in 1..Len(keys) : keys[i].Kid = k}
    IN IF at # {}
       THEN [key |-> keys[CHOOSE i \in at : \A j \in at : i <= j], err |-> ""]
       ELSE IF keys = <<>>
       THEN [key |-> NoKey, err |-> "key not found"]
       ELSE [key |-> Head(keys), err |-> ""]

\* the key scan of getKey: first key whose Kid matches
RECURSIVE findKey(_, _)
findKey(keys, k) ==
    IF keys = <<>>
    THEN [key |-> NoKey, err |-> "key not found"]
    ELSE IF Head(keys).Kid = k
    THEN [key |-> Head(keys), err |-> ""]
    ELSE findKey(Tail(keys), k)

\* mutant of getKeyFetchFailed: a failed refresh falls through to the key scan
getKeyServeStale(cached, k) == findKey(cached.Keys, k)

\* getKey's return when fetchJWKS failed
getKeyFetchFailed(cached, k) == [key |-> NoKey, err |-> "failed to fetch jwks"]

NoRet == [key |-> NoKey, err |-> "none"]

NoFetches == [started |-> 0, failed |-> 0, atLastOk |-> 0, last |-> "none",
              firstOk |-> 0, firstUntil |-> 0]

NoSeen == [at |-> 0, stale |-> 0, fetched |-> FALSE]

-----------------------------------------------------------------------------
(* JWKS: construction and getKey *)

\* a NewJWKS that takes the cache for fresh until the first TTL has passed
NewJWKSFresh ==
    /\ now = 1
    /\ m = 0
    /\ jwksStaleAfter = NewStaleAfter(now, defaultJwksTTL)
    /\ jwks = NilJwks
    /\ pc = [c \in Callers |-> "idle"]
    /\ kid = [c \in Callers |-> ""]
    /\ res = NoRes
    /\ ret = [c \in Callers |-> NoRet]
    /\ seen = NoSeen
    /\ fetches = NoFetches
    /\ calledStale = [c \in Callers |-> FALSE]
    /\ calls = 0

\* NewJWKS
NewJWKS ==
    /\ now = 1
    /\ m = 0
    /\ jwksStaleAfter = 0
    /\ jwks = NilJwks
    /\ pc = [c \in Callers |-> "idle"]
    /\ kid = [c \in Callers |-> ""]
    /\ res = NoRes
    /\ ret = [c \in Callers |-> NoRet]
    /\ seen = NoSeen
    /\ fetches = NoFetches
    /\ calledStale = [c \in Callers |-> FALSE]
    /\ calls = 0

\* NewJWKS, with WithJwksTTL
JInit ==
    /\ NewJWKS
    /\ ttl \in TTLs

\* a caller enters getKey(k) and waits for j.m
Call(c, k) ==
    /\ pc[c] = "idle"
    /\ calls < MaxCalls
    /\ calls' = calls + 1
    /\ pc' = [pc EXCEPT ![c] = "lock"]
    /\ kid' = [kid EXCEPT ![c] = k]
    /\ calledStale' = [calledStale EXCEPT ![c] = now > jwksStaleAfter]
    /\ UNCHANGED <<now, ttl, m, jwksStaleAfter, jwks, res, ret, seen, fetches>>
    /\ UNCHANGED <<hvars, tvars, cvars, uvars>>

\* mutant of Lock: the lock is taken without waiting for its holder
LockNoMutex(c) ==
    /\ pc[c] = "lock"
    /\ m' = c
    /\ pc' = [pc EXCEPT ![c] = "check"]
    /\ UNCHANGED <<now, ttl, jwksStaleAfter, jwks, kid, res, ret, seen, fetches, calls,
                   calledStale>>
    /\ UNCHANGED <<hvars, tvars, cvars, uvars>>

\* j.m.Lock()
Lock(c) ==
    /\ pc[c] = "lock"
    /\ m = 0
    /\ m' = c
    /\ pc' = [pc EXCEPT ![c] = "check"]
    /\ UNCHANGED <<now, ttl, jwksStaleAfter, jwks, kid, res, ret, seen, fetches, calls,
                   calledStale>>
    /\ UNCHANGED <<hvars, tvars, cvars, uvars>>

\* if time.Now().After(j.jwksStaleAfter) { res, err := j.fetchJWKS() ...
CheckStale(c) ==
    /\ pc[c] = "check"
    /\ seen' = [at |-> now, stale |-> jwksStaleAfter, fetched |-> IsStale(now, jwksStaleAfter)]
    /\ IF IsStale(now, jwksStaleAfter)
       THEN /\ pc' = [pc EXCEPT ![c] = "fetch"]
            /\ fetches' = [fetches EXCEPT !.started = @ + 1, !.last = "inflight"]
       ELSE /\ pc' = [pc EXCEPT ![c] = "scan"]
            /\ UNCHANGED fetches
    /\ UNCHANGED <<now, ttl, m, jwksStaleAfter, jwks, kid, res, ret, calls,
                   calledStale>>
    /\ UNCHANGED <<hvars, tvars, cvars, uvars>>

\* mutant of FetchReturn: the fetch is aborted when the caller's context is done
FetchReturnCancellable(c, resp) ==
    /\ pc[c] = "fetch"
    /\ res' = IF cancelled[c]
              THEN [res |-> NilJwks, err |-> "context canceled"]
              ELSE fetchJWKS(resp)
    /\ pc' = [pc EXCEPT ![c] = "fetched"]
    /\ UNCHANGED <<now, ttl, m, jwksStaleAfter, jwks, kid, ret, seen, fetches, calls,
                   calledStale>>
    /\ UNCHANGED <<hvars, tvars, cvars, uvars>>

\* j.fetchJWKS() returns
FetchReturn(c, resp) ==
    /\ pc[c] = "fetch"
    /\ res' = fetchJWKS(resp)
    /\ pc' = [pc EXCEPT ![c] = "fetched"]
    /\ UNCHANGED <<now, ttl, m, jwksStaleAfter, jwks, kid, ret, seen, fetches, calls,
                   calledStale>>
    /\ UNCHANGED <<hvars, tvars, cvars, uvars>>

\* mutant of FetchFailed: a failed refresh extends jwksStaleAfter
FetchFailedExtends(c) ==
    /\ pc[c] = "fetched"
    /\ res.err # ""
    /\ ret' = [ret EXCEPT ![c] = getKeyFetchFailed(jwks, kid[c])]
    /\ fetches' = [fetches EXCEPT !.failed = @ + 1, !.last = "err"]
    /\ jwksStaleAfter' = NewStaleAfter(now, ttl)
    /\ m' = 0
    /\ res' = NoRes
    /\ seen' = NoSeen
    /\ pc' = [pc EXCEPT ![c] = "done"]
    /\ UNCHANGED <<now, ttl, jwks, kid, calls, calledStale>>
    /\ UNCHANGED <<hvars, tvars, cvars, uvars>>

\* mutant of FetchFailed: the error return leaves j.m locked
FetchFailedKeepsLock(c) ==
    /\ pc[c] = "fetched"
    /\ res.err # ""
    /\ ret' = [ret EXCEPT ![c] = getKeyFetchFailed(jwks, kid[c])]
    /\ fetches' = [fetches EXCEPT !.failed = @ + 1, !.last = "err"]
    /\ res' = NoRes
    /\ seen' = NoSeen
    /\ pc' = [pc EXCEPT ![c] = "done"]
    /\ UNCHANGED <<now, ttl, m, jwksStaleAfter, jwks, kid, calls,
                   calledStale>>
    /\ UNCHANGED <<hvars, tvars, cvars, uvars>>

\* if err != nil { return nil, fmt.Errorf("failed to fetch jwks: %w", err) }, with
\* the deferred j.m.Unlock()
FetchFailed(c) ==
    /\ pc[c] = "fetched"
    /\ res.err # ""
    /\ ret' = [ret EXCEPT ![c] = getKeyFetchFailed(jwks, kid[c])]
    /\ fetches' = [fetches EXCEPT !.failed = @ + 1, !.last = "err"]
    /\ m' = 0
    /\ res' = NoRes
    /\ seen' = NoSeen
    /\ pc' = [pc EXCEPT ![c] = "done"]
    /\ UNCHANGED <<now, ttl, jwksStaleAfter, jwks, kid, calls,
                   calledStale>>
    /\ UNCHANGED <<hvars, tvars, cvars, uvars>>

\* mutant of Install: the fetched keys are added to the cached ones
InstallIncremental(c) ==
    /\ pc[c] = "fetched"
    /\ res.err = ""
    /\ jwks' = [nil |-> FALSE, Keys |-> jwks.Keys \o res.res.Keys]
    /\ jwksStaleAfter' = NewStaleAfter(now, ttl)
    /\ fetches' = [fetches EXCEPT
                       !.atLastOk = fetches.started, !.last = "ok",
                       !.firstOk = IF @ = 0 THEN fetches.started ELSE @,
                       !.firstUntil = IF fetches.firstOk = 0
                                      THEN NewStaleAfter(now, ttl) ELSE @]
    /\ res' = NoRes
    /\ pc' = [pc EXCEPT ![c] = "scan"]
    /\ UNCHANGED <<now, ttl, m, kid, ret, seen, calls,
                   calledStale>>
    /\ UNCHANGED <<hvars, tvars, cvars, uvars>>

\* j.jwks = res; j.jwksStaleAfter = time.Now().Add(j.ttl)
Install(c) ==
    /\ pc[c] = "fetched"
    /\ res.err = ""
    /\ jwks' = res.res
    /\ jwksStaleAfter' = NewStaleAfter(now, ttl)
    /\ fetches' = [fetches EXCEPT
                       !.atLastOk = fetches.started, !.last = "ok",
                       !.firstOk = IF @ = 0 THEN fetches.started ELSE @,
                       !.firstUntil = IF fetches.firstOk = 0
                                      THEN NewStaleAfter(now, ttl) ELSE @]
    /\ res' = NoRes
    /\ pc' = [pc EXCEPT ![c] = "scan"]
    /\ UNCHANGED <<now, ttl, m, kid, ret, seen, calls,
                   calledStale>>
    /\ UNCHANGED <<hvars, tvars, cvars, uvars>>

\* for _, key := range j.jwks.Keys {...}; return, with the deferred j.m.Unlock()
Scan(c) ==
    /\ pc[c] = "scan"
    /\ ret' = [ret EXCEPT ![c] = findKey(jwks.Keys, kid[c])]
    /\ m' = 0
    /\ seen' = NoSeen
    /\ pc' = [pc EXCEPT ![c] = "done"]
    /\ UNCHANGED <<now, ttl, jwksStaleAfter, jwks, kid, res, fetches, calls,
                   calledStale>>
    /\ UNCHANGED <<hvars, tvars, cvars, uvars>>

\* the caller takes getKey's result and goes on
Return(c) ==
    /\ pc[c] = "done"
    /\ pc' = [pc EXCEPT ![c] = "idle"]
    /\ ret' = [ret EXCEPT ![c] = NoRet]
    /\ kid' = [kid EXCEPT ![c] = ""]
    /\ calledStale' = [calledStale EXCEPT ![c] = FALSE]
    /\ UNCHANGED <<now, ttl, m, jwksStaleAfter, jwks, res, seen, fetches, calls>>
    /\ UNCHANGED <<hvars, tvars, cvars, uvars>>

\* the clock advances
Tick ==
    /\ now < MaxTime
    /\ now' = now + 1
    /\ UNCHANGED <<ttl, m, jwksStaleAfter, jwks, pc, kid, res, ret, seen, fetches, calls,
                   calledStale>>
    /\ UNCHANGED <<hvars, tvars, cvars, uvars>>

JNext ==
    \/ \E c \in Callers, k \in Kids : Call(c, k)
    \/ \E c \in Callers : Lock(c)
    \/ \E c \in Callers : CheckStale(c)
    \/ \E c \in Callers, resp \in Responses : FetchReturn(c, resp)
    \/ \E c \in Callers : FetchFailed(c)
    \/ \E c \in Callers : Install(c)
    \/ \E c \in Callers : Scan(c)
    \/ \E c \in Callers : Return(c)
    \/ Tick

-----------------------------------------------------------------------------
(* Errors, contexts and authentication results *)

\* An error is the chain of what errors.Unwrap yields, outermost first; nil is empty.
NilErr == <<>>

\* fmt.Errorf("%w", err)
Wrap(err) == <<"%w">> \o err

\* errors.Is(err, target) / errors.As: target is found along the Unwrap chain
Is(err, target) == \E i \in 1..Len(err) : SubSeq(err, i, Len(err)) = target

\* ErrNoToken{}
ErrNoToken == <<"no token found">>

\* twirp.NewError(twirp.Unauthenticated, "Unauthenticated")
Unauthenticated == <<"twirp error Unauthenticated">>

NoClaims == [Org |-> "", Subject |-> "", TokenType |-> ""]

\* AuthInfo{}
NoAuthInfo == [AccessToken |-> <<>>, Claims |-> NoClaims]

\* a context without a value for authInfoKey
NoAi == [set |-> FALSE, Ac |-> NoAuthInfo, Err |-> NilErr]

\* ctx.Value(reqStartTimestampKey) of a context without a start time
NoStart == [ok |-> FALSE, at |-> 0]

\* context.Background(): no request headers, no service and method names, no values
\* (none for authInfoKey, none for the reqStartTimestampKey of the metrics hooks)
Background == [headers |-> [present |-> FALSE, Authorization |-> <<>>],
               names |-> FALSE, ai |-> NoAi, start |-> NoStart]

\* SetAuth
SetAuth(ctx, auth, err) == [ctx EXCEPT !.ai = [set |-> TRUE, Ac |-> auth, Err |-> err]]

\* mutant of GetAuth: the stored AuthInfo is returned along with a stored error
GetAuthMixed(ctx) ==
    IF ~ctx.ai.set
    THEN [info |-> NoAuthInfo, err |-> <<"no authentication information in context">>]
    ELSE [info |-> ctx.ai.Ac, err |-> ctx.ai.Err]

\* GetAuth
GetAuth(ctx) ==
    IF ~ctx.ai.set
    THEN [info |-> NoAuthInfo, err |-> <<"no authentication information in context">>]
    ELSE IF ctx.ai.Err # NilErr
    THEN [info |-> NoAuthInfo, err |-> ctx.ai.Err]
    ELSE [info |-> ctx.ai.Ac, err |-> NilErr]

-----------------------------------------------------------------------------
(* Contexts derived from one another *)

\* A context is a node of the tree that context.WithValue builds: its parent (0 for
\* context.Background()) and the value it holds itself for authInfoKey, if any.
RootContexts == <<[parent |-> 0, own |-> NoAi]>>

\* ctx.Value(authInfoKey): the value of the nearest node, from n upwards, that holds one
RECURSIVE Value(_, _)
Value(store, n) ==
    IF store[n].own.set THEN store[n].own
    ELSE IF store[n].parent = 0 THEN NoAi
    ELSE Value(store, store[n].parent)

\* context n as GetAuth and SetAuth see it
View(store, n) == [Background EXCEPT !.ai = Value(store, n)]

\* GetAuth(ctx), ctx being context n
GetAuthAt(store, n) == GetAuth(View(store, n))

\* mutant of WithAuth: the value is written into the context given, and the context
\* returned is a plain child of it
WithAuthInPlace(store, n, auth, err) ==
    Append([store EXCEPT ![n].own = SetAuth(View(store, n), auth, err).ai],
           [parent |-> n, own |-> NoAi])

\* SetAuth(ctx, auth, err), ctx being context n: context.WithValue makes a new
\* context, the last of the store, whose parent is n
WithAuth(store, n, auth, err) ==
    Append(store, [parent |-> n, own |-> SetAuth(View(store, n), auth, err).ai])

\* a context derived from n without a value for authInfoKey
Derived(store, n) == Append(store, [parent |-> n, own |-> NoAi])

-----------------------------------------------------------------------------
(* Bearer tokens *)

\* A header value is a sequence of words and single spaces; a token is what follows
\* the scheme.
Space == " "

\* strings.ToLower of a scheme word
ToLower(w) ==
    CASE w = "Bearer" -> "bearer"
      [] w = "BeaReR" -> "bearer"
      [] w = "Basic" -> "basic"
      [] OTHER -> w

\* index of the first space of s, 0 when it has none
RECURSIVE FirstSpace(_, _)
FirstSpace(s, i) ==
    IF i > Len(s) THEN 0
    ELSE IF s[i] = Space THEN i
    ELSE FirstSpace(s, i + 1)

\* strings.Cut(auth, " "): before and after the first space
Cut(s) ==
    LET i == FirstSpace(s, 1)
    IN IF i = 0
       THEN [before |-> s, after |-> <<>>]
       ELSE [before |-> SubSeq(s, 1, i - 1), after |-> SubSeq(s, i + 1, Len(s))]

\* mutant of getAuthToken: the scheme is compared as it is written
getAuthTokenExact(auth) ==
    LET c == Cut(auth)
    IN IF c.after = <<>>
       THEN [token |-> <<>>, err |-> ErrNoToken]
       ELSE IF c.before # <<"bearer">>
       THEN [token |-> <<>>, err |-> ErrNoToken]
       ELSE [token |-> c.after, err |-> NilErr]

\* mutant of getAuthToken: an empty token is let through
getAuthTokenNoCheck(auth) == [token |-> Cut(auth).after, err |-> NilErr]

\* getAuthToken, on header.Get("Authorization")
getAuthToken(auth) ==
    LET c == Cut(auth)
    IN IF c.after = <<>>
       THEN [token |-> <<>>, err |-> ErrNoToken]
       ELSE IF [i \in 1..Len(c.before) |-> ToLower(c.before[i])] # <<"bearer">>
       THEN [token |-> <<>>, err |-> ErrNoToken]
       ELSE [token |-> c.after, err |-> NilErr]

\* What a token string decodes to: its header, claims, the key that signed it and
\* whether its temporal claims are valid. Any other string is malformed.
TokenOf(tok) ==
    LET good == [wellFormed |-> TRUE, alg |-> "RS512", kidIs |-> "string", kid |-> "k1",
                 ntt |-> "access_token", signedBy |-> "nA", timely |-> TRUE,
                 org |-> "testorg", sub |-> "user1"]
    IN CASE tok = <<"good">> -> good
         [] tok = <<"idtoken">> -> [good EXCEPT !.ntt = "id_token"]
         [] tok = <<"forged">> -> [good EXCEPT !.signedBy = "nX"]
         [] tok = <<"hmac">> -> [good EXCEPT !.alg = "HS256", !.signedBy = "nA as secret"]
         [] tok = <<"expired">> -> [good EXCEPT !.timely = FALSE]
         [] tok = <<"otherkid">> -> [good EXCEPT !.kid = "k3", !.signedBy = "nC"]
         [] tok = <<"nokid">> -> [good EXCEPT !.kidIs = "absent", !.kid = ""]
         [] tok = <<"numkid">> -> [good EXCEPT !.kidIs = "number", !.kid = ""]
         [] OTHER ->
              [wellFormed |-> FALSE, alg |-> "", kidIs |-> "absent", kid |-> "", ntt |-> "",
               signedBy |-> "", timely |-> FALSE, org |-> "", sub |-> ""]

\* TokenTypeAccessToken
TokenTypeAccessToken == "access_token"

\* token.Method.(*jwt.SigningMethodRSA)
IsRSA(alg) == alg \in {"RS256", "RS384", "RS512"}

\* ValidateToken reaches j.getKey: the token parsed, is RSA-signed and of the type asked
ReachesGetKey(tok, tokenType) ==
    LET t == TokenOf(tok)
    IN t.wellFormed /\ IsRSA(t.alg) /\ t.ntt = tokenType /\ t.kidIs = "string"

\* getKey run to its end while it holds j.m, with resp the answer to a fetch it makes:
\* the cache it leaves and what it returns
getKeyCache(resp) ==
    IF IsStale(now, jwksStaleAfter) /\ fetchJWKS(resp).err = ""
    THEN [jwks |-> fetchJWKS(resp).res, staleAfter |-> NewStaleAfter(now, ttl)]
    ELSE [jwks |-> jwks, staleAfter |-> jwksStaleAfter]

getKey(k, resp) ==
    IF IsStale(now, jwksStaleAfter) /\ fetchJWKS(resp).err # ""
    THEN getKeyFetchFailed(jwks, k)
    ELSE findKey(getKeyCache(resp).jwks.Keys, k)

\* return Claims{}, fmt.Errorf("failed to parse token: %w", err)
ParseFailed(why) ==
    [claims |-> NoClaims, err |-> <<"failed to parse token", why>>, panic |-> FALSE]

\* the claims a token decodes to
ClaimsOf(t) == [Org |-> t.org, Subject |-> t.sub, TokenType |-> t.ntt]

\* mutant of RejectedBeforeKey: the token type is not looked at
RejectedBeforeKeyAnyType(t, tokenType) ==
    IF ~t.wellFormed THEN "malformed"
    ELSE IF ~IsRSA(t.alg) THEN "unexpected signing method"
    ELSE ""

\* ValidateToken, up to the call of j.getKey: why the token is rejected there, ""
\* when it is not
RejectedBeforeKey(t, tokenType) ==
    IF ~t.wellFormed THEN "malformed"
    ELSE IF ~IsRSA(t.alg) THEN "unexpected signing method"
    ELSE IF t.ntt # tokenType THEN "unexpected token type"
    ELSE ""

\* token.Header["kid"].(string) panics: the header has no kid, or one that is no string
KidPanics(t) == t.kidIs # "string"

\* mutant of VerifyWithKey: the decoded claims are returned along with the error
VerifyWithKeyLeaky(t, jwk) ==
    IF jwk.err = "" /\ t.alg = jwk.key.Alg /\ t.timely /\ t.signedBy = jwk.key.N
    THEN [claims |-> ClaimsOf(t), err |-> NilErr, panic |-> FALSE]
    ELSE [ParseFailed("invalid") EXCEPT !.claims = ClaimsOf(t)]

\* ValidateToken, from the return of j.getKey on
VerifyWithKey(t, jwk) ==
    IF jwk.err # "" THEN ParseFailed("unknown key id")
    ELSE IF t.alg # jwk.key.Alg THEN ParseFailed("algorithm is not the same")
    ELSE IF ~t.timely THEN ParseFailed("token is expired")
    ELSE IF t.signedBy # jwk.key.N THEN ParseFailed("crypto/rsa: verification error")
    ELSE [claims |-> ClaimsOf(t), err |-> NilErr, panic |-> FALSE]

\* a ValidateToken call that ended in a panic returns nothing
Panicked == [claims |-> NoClaims, err |-> <<"panic: interface conversion">>, panic |-> TRUE]

\* ValidateToken
ValidateToken(tok, tokenType, resp) ==
    LET t == TokenOf(tok)
    IN IF RejectedBeforeKey(t, tokenType) # ""
       THEN ParseFailed(RejectedBeforeKey(t, tokenType))
       ELSE IF KidPanics(t) THEN Panicked
       ELSE VerifyWithKey(t, getKey(t.kid, resp))

\* Validate
Validate(tok, resp) == ValidateToken(tok, TokenTypeAccessToken, resp)

\* the cache after Validate(tok)
ValidateCache(tok, resp) ==
    IF ReachesGetKey(tok, TokenTypeAccessToken)
    THEN getKeyCache(resp)
    ELSE [jwks |-> jwks, staleAfter |-> jwksStaleAfter]

-----------------------------------------------------------------------------
(* Authentication: the Twirp hook and the HTTP middleware *)

\* mutant of TwirpAuthenticate: a failure is recorded in the context and not returned
TwirpAuthenticateLenient(ctx, resp) ==
    IF ~ctx.headers.present
    THEN [ctx |-> SetAuth(ctx, NoAuthInfo, Unauthenticated), err |-> NilErr]
    ELSE LET a == getAuthToken(ctx.headers.Authorization)
         IN IF a.err # NilErr
            THEN [ctx |-> SetAuth(ctx, NoAuthInfo, a.err), err |-> NilErr]
            ELSE LET v == Validate(a.token, resp)
                 IN IF v.err # NilErr
                    THEN [ctx |-> SetAuth(ctx, NoAuthInfo, v.err), err |-> NilErr]
                    ELSE [ctx |-> SetAuth(ctx, [AccessToken |-> a.token,
                                                Claims |-> v.claims], NilErr),
                          err |-> NilErr]

\* TwirpAuthenticate
TwirpAuthenticate(ctx, resp) ==
    IF ~ctx.headers.present
    THEN [ctx |-> ctx, err |-> Unauthenticated]
    ELSE LET a == getAuthToken(ctx.headers.Authorization)
         IN IF a.err # NilErr
            THEN [ctx |-> ctx, err |-> Unauthenticated]
            ELSE LET v == Validate(a.token, resp)
                 IN IF v.err # NilErr
                    THEN [ctx |-> ctx, err |-> Unauthenticated]
                    ELSE [ctx |-> SetAuth(ctx, [AccessToken |-> a.token,
                                                Claims |-> v.claims], NilErr),
                          err |-> NilErr]

\* the cache after TwirpAuthenticate
TwirpAuthenticateCache(ctx, resp) ==
    IF ctx.headers.present /\ getAuthToken(ctx.headers.Authorization).err = NilErr
    THEN ValidateCache(getAuthToken(ctx.headers.Authorization).token, resp)
    ELSE [jwks |-> jwks, staleAfter |-> jwksStaleAfter]

\* mutant of HTTPMiddlewareCtx: a token that fails validation is recorded as no token
HTTPMiddlewareCtxNoToken(ctx, resp) ==
    LET a == getAuthToken(ctx.headers.Authorization)
    IN IF a.err # NilErr
       THEN SetAuth(ctx, NoAuthInfo, a.err)
       ELSE LET v == Validate(a.token, resp)
            IN IF v.err # NilErr
               THEN SetAuth(ctx, NoAuthInfo, ErrNoToken)
               ELSE SetAuth(ctx, [AccessToken |-> a.token, Claims |-> v.claims], NilErr)

\* HTTPMiddleware: the context it hands to next.ServeHTTP
HTTPMiddlewareCtx(ctx, resp) ==
    LET a == getAuthToken(ctx.headers.Authorization)
    IN IF a.err # NilErr
       THEN SetAuth(ctx, NoAuthInfo, a.err)
       ELSE LET v == Validate(a.token, resp)
            IN IF v.err # NilErr
               THEN SetAuth(ctx, NoAuthInfo, v.err)
               ELSE SetAuth(ctx, [AccessToken |-> a.token, Claims |-> v.claims], NilErr)

\* HTTPMiddleware: jwks.Validate(accessToken) panics
HTTPMiddlewarePanics(ctx, resp) ==
    LET a == getAuthToken(ctx.headers.Authorization)
    IN a.err = NilErr /\ Validate(a.token, resp).panic

\* HTTPMiddleware: the calls annotate(ctx, claims.Org, claims.Subject) it makes
Annotates(ctx, resp) ==
    LET a == getAuthToken(ctx.headers.Authorization)
    IN IF a.err # NilErr THEN <<>>
       ELSE LET v == Validate(a.token, resp)
            IN IF v.err # NilErr THEN <<>>
               ELSE <<<<v.claims.Org, v.claims.Subject>>>>

\* the cache after HTTPMiddleware
HTTPMiddlewareCache(ctx, resp) ==
    IF getAuthToken(ctx.headers.Authorization).err = NilErr
    THEN ValidateCache(getAuthToken(ctx.headers.Authorization).token, resp)
    ELSE [jwks |-> jwks, staleAfter |-> jwksStaleAfter]

-----------------------------------------------------------------------------
(* Metrics and the combined hook *)

Orgs == {"", "testorg"}

\* a contextOrg that reports the organisation of any request in the pipeline
contextOrgOfAnyRequest(ctx) ==
    IF \E r \in DOMAIN rctx : GetAuth(rctx[r]).err = NilErr THEN "testorg" ELSE ""

\* the default contextOrg of NewTwirpMetricsHooks
contextOrg(ctx) == IF GetAuth(ctx).err # NilErr THEN "" ELSE GetAuth(ctx).info.Claims.Org

\* a RequestRouted that counts only the requests that are authenticated
CountsAuthenticated(ctx) == ctx.names /\ GetAuth(ctx).err = NilErr

\* hooks.RequestRouted of NewTwirpMetricsHooks counts the request: the service and
\* method names are in the context
Counts(ctx) == ctx.names

\* hooks.RequestReceived of NewTwirpMetricsHooks puts the start time in the context
RequestReceived(hook) == hook.kind = "prometheus"

\* context.WithValue(ctx, reqStartTimestampKey, time.Now()), at time t
StartTimestamp(hook, t) == IF RequestReceived(hook) THEN [ok |-> TRUE, at |-> t] ELSE NoStart

\* twirp.StatusCode(ctx): the HTTP status of the response, 401 for the
\* Unauthenticated error of a failed RequestRouted hook
Statuses == {"200", "401", "403", "500"}

\* twirp.NewError(twirp.PermissionDenied, ...), an error a handler returns
PermissionDenied == <<"twirp error PermissionDenied">>

\* the twirp.Error written for err: the twirp.Error found in its chain, else
\* twirp.InternalErrorWith(err), which has the cause in its meta map
TwirpErrorOf(err) ==
    IF Is(err, Unauthenticated)
    THEN [code |-> "unauthenticated", msg |-> "Unauthenticated", meta |-> FALSE]
    ELSE IF Is(err, PermissionDenied)
    THEN [code |-> "permission_denied", msg |-> "PermissionDenied", meta |-> FALSE]
    ELSE [code |-> "internal", msg |-> "internal", meta |-> TRUE]

\* twirp.ServerHTTPStatusFromErrorCode
ServerHTTPStatusFromErrorCode(code) ==
    IF code = "unauthenticated" THEN "401"
    ELSE IF code = "permission_denied" THEN "403"
    ELSE "500"

StatusCode(err) ==
    IF err = NilErr THEN "200" ELSE ServerHTTPStatusFromErrorCode(TwirpErrorOf(err).code)

\* a ResponseSent that leaves out the responses to unauthenticated requests
RecordsResponseAuthenticated(hook, ctx) ==
    hook.kind = "prometheus" /\ ctx.names /\ GetAuth(ctx).err = NilErr

\* hooks.ResponseSent of NewTwirpMetricsHooks records the response: the service and
\* method names are in the context
RecordsResponse(hook, ctx) == hook.kind = "prometheus" /\ ctx.names

\* hooks.ResponseSent: the start time of the request is in the context
Observes(ctx) == ctx.start.ok

\* dur * 1000 at time t: the seconds since start (the clock ticks in minutes), or
\* the seconds of opt.testLatency when it is set, in milliseconds
Observed(hook, start, t) ==
    (IF hook.testLatency # 0 THEN hook.testLatency ELSE (t - start.at) * 60) * 1000

\* The hooks CombineMetricsAndAuthHooks may be given. auth: none, or NewTwirpAuthHook.
\* metrics: none, NewTwirpMetricsHooks, or hooks of the caller's own whose
\* RequestRouted returns the context it was given or one of its own, with or
\* without an error.
AuthHooks == {"nil", "navigaid"}

MetricsHooks ==
    {[kind |-> "nil", own |-> FALSE, fails |-> FALSE, testLatency |-> 0],
     [kind |-> "prometheus", own |-> FALSE, fails |-> FALSE, testLatency |-> 0]}
    \cup {[kind |-> "custom", own |-> o, fails |-> f, testLatency |-> 0] :
              o \in BOOLEAN, f \in BOOLEAN}

\* metrics.RequestRouted(ctx): what it returns
MetricsRequestRouted(hook, ctx) ==
    IF hook.kind = "custom"
    THEN [ctx |-> IF hook.own THEN Background ELSE ctx,
          err |-> IF hook.fails THEN <<"metrics error">> ELSE NilErr]
    ELSE [ctx |-> ctx, err |-> NilErr]

\* mutant of RunsMetrics: the metrics hook is skipped after an auth error, as in
\* twirp.ChainHooks
RunsMetricsUnlessAuthFailed(hook, err) == hook.kind # "nil" /\ err = NilErr

\* CombineMetricsAndAuthHooks: metrics.RequestRouted is called whatever err is
RunsMetrics(hook, err) == hook.kind # "nil"

\* CombineMetricsAndAuthHooks: the context after the metrics hook returned
CombineCtx(ctx, mr) == IF mr.err # NilErr THEN mr.ctx ELSE ctx

\* mutant of CombineErr: a metrics error is returned when auth gave none
CombineErrOrMetrics(err, mErr) == IF err # NilErr THEN Wrap(err) ELSE mErr

\* CombineMetricsAndAuthHooks: the error returned
CombineErr(err, mErr) == IF err # NilErr THEN Wrap(err) ELSE NilErr

-----------------------------------------------------------------------------
(* Requests *)

\* the requests that can be in the pipeline at once
Requests == {1, 2}

\* Authorization header values
Authorizations ==
    {<<>>,
     <<"Basic", Space, "good">>,
     <<"Bearer", Space, "good">>,
     <<"bearer", Space, "forged">>}

NoGot == [info |-> NoAuthInfo, err |-> <<"not called">>]

NoHist == [via |-> "", headers |-> Background.headers, authDone |-> FALSE, authErr |-> NilErr, authAi |-> NoAi,
           metricsCalls |-> 0, metricsErr |-> NilErr, incs |-> <<>>,
           handlerRan |-> FALSE, got |-> NoGot,
           responded |-> FALSE, resps |-> <<>>, obs |-> <<>>, at |-> 0, durs |-> <<>>,
           setAuth |-> 0, annotated |-> <<>>, handled |-> 0]

\* no request in the pipeline
NoRequests ==
    /\ requestsReceived = [o \in Orgs |-> 0]
    /\ responsesSent = [l \in Statuses \X Orgs |-> 0]
    /\ duration = [o \in Orgs |-> 0]
    /\ stage = [r \in Requests |-> "none"]
    /\ rctx = [r \in Requests |-> Background]
    /\ rerr = [r \in Requests |-> NilErr]
    /\ hist = [r \in Requests |-> NoHist]
    /\ started = 0

JUnused == <<pc, kid, res, ret, seen, fetches, calledStale, calls, m, now, ttl, tvars,
            cvars, uvars>>

\* a Twirp request arrives: AddTwirpRequestHeaders (when the handler is wrapped in
\* it) puts the headers in the context, the server the service and method names,
\* and the RequestReceived hook runs
TwirpRequest(r, present, auth, names) ==
    /\ stage[r] = "none"
    /\ started < MaxRequests
    /\ started' = started + 1
    /\ stage' = [stage EXCEPT ![r] = "auth"]
    /\ rctx' = [rctx EXCEPT ![r] =
                   [headers |-> [present |-> present,
                                 Authorization |-> IF present THEN auth ELSE <<>>],
                    names |-> names, ai |-> NoAi,
                    start |-> StartTimestamp(metricsHook, now)]]
    /\ rerr' = [rerr EXCEPT ![r] = NilErr]
    /\ hist' = [hist EXCEPT ![r] = [NoHist EXCEPT !.via = "twirp",
                                                  !.headers = rctx'[r].headers,
                                                  !.at = now]]
    /\ UNCHANGED <<authHook, metricsHook, responsesSent, duration, requestsReceived, jwks, jwksStaleAfter>>
    /\ UNCHANGED JUnused

\* chained.RequestRouted, first half: if auth.RequestRouted != nil { ctx, err = ... }
AuthStage(r, resp) ==
    /\ stage[r] = "auth"
    /\ LET a == IF authHook = "nil"
                THEN [ctx |-> rctx[r], err |-> NilErr]
                ELSE TwirpAuthenticate(rctx[r], resp)
           cache == IF authHook = "nil"
                    THEN [jwks |-> jwks, staleAfter |-> jwksStaleAfter]
                    ELSE TwirpAuthenticateCache(rctx[r], resp)
       IN /\ rctx' = [rctx EXCEPT ![r] = a.ctx]
          /\ rerr' = [rerr EXCEPT ![r] = a.err]
          /\ hist' = [hist EXCEPT ![r].authDone = TRUE, ![r].authErr = a.err,
                                  ![r].authAi = a.ctx.ai]
          /\ jwks' = cache.jwks
          /\ jwksStaleAfter' = cache.staleAfter
    /\ stage' = [stage EXCEPT ![r] = "metrics"]
    /\ UNCHANGED <<authHook, metricsHook, responsesSent, duration, requestsReceived, started>>
    /\ UNCHANGED JUnused

\* chained.RequestRouted, second half: the metrics hook, then return ctx, err
MetricsStage(r) ==
    /\ stage[r] = "metrics"
    /\ IF RunsMetrics(metricsHook, rerr[r])
       THEN LET mr == MetricsRequestRouted(metricsHook, rctx[r])
                counted == metricsHook.kind = "prometheus" /\ Counts(rctx[r])
                org == contextOrg(rctx[r])
            IN /\ requestsReceived' =
                      IF counted
                      THEN [requestsReceived EXCEPT ![org] = @ + 1]
                      ELSE requestsReceived
               /\ rctx' = [rctx EXCEPT ![r] = CombineCtx(rctx[r], mr)]
               /\ rerr' = [rerr EXCEPT ![r] = CombineErr(rerr[r], mr.err)]
               /\ hist' = [hist EXCEPT
                              ![r].metricsCalls = @ + 1,
                              ![r].metricsErr = mr.err,
                              ![r].incs = IF counted THEN Append(@, org) ELSE @]
       ELSE /\ rerr' = [rerr EXCEPT ![r] = CombineErr(rerr[r], NilErr)]
            /\ UNCHANGED <<requestsReceived, rctx, hist>>
    /\ stage' = [stage EXCEPT ![r] = "routed"]
    /\ UNCHANGED <<authHook, metricsHook, responsesSent, duration, started, jwks, jwksStaleAfter>>
    /\ UNCHANGED JUnused

\* the Twirp server after RequestRouted: an error fails the request, which never
\* reaches the handler; otherwise the handler is called
Dispatch(r) ==
    /\ stage[r] = "routed"
    /\ stage' = [stage EXCEPT ![r] = IF rerr[r] # NilErr THEN "failed" ELSE "handler"]
    /\ UNCHANGED <<authHook, metricsHook, responsesSent, duration, requestsReceived, rctx, rerr, hist, started,
                   jwks, jwksStaleAfter>>
    /\ UNCHANGED JUnused

\* an HTTP request arrives at HTTPMiddleware
HTTPRequest(r, auth) ==
    /\ stage[r] = "none"
    /\ started < MaxRequests
    /\ started' = started + 1
    /\ stage' = [stage EXCEPT ![r] = "middleware"]
    /\ rctx' = [rctx EXCEPT ![r] =
                   [headers |-> [present |-> TRUE, Authorization |-> auth],
                    names |-> FALSE, ai |-> NoAi, start |-> NoStart]]
    /\ rerr' = [rerr EXCEPT ![r] = NilErr]
    /\ hist' = [hist EXCEPT ![r] = [NoHist EXCEPT !.via = "http",
                                                  !.headers = rctx'[r].headers]]
    /\ UNCHANGED <<authHook, metricsHook, responsesSent, duration, requestsReceived, jwks, jwksStaleAfter>>
    /\ UNCHANGED JUnused

\* HTTPMiddleware, up to next.ServeHTTP(w, r.WithContext(ctx)); a panic inside
\* jwks.Validate leaves the middleware before SetAuth, annotate and next.ServeHTTP
HTTPMiddleware(r, resp) ==
    /\ stage[r] = "middleware"
    /\ IF HTTPMiddlewarePanics(rctx[r], resp)
       THEN /\ stage' = [stage EXCEPT ![r] = "panicked"]
            /\ UNCHANGED <<rctx, hist>>
       ELSE /\ rctx' = [rctx EXCEPT ![r] = HTTPMiddlewareCtx(rctx[r], resp)]
            /\ hist' = [hist EXCEPT
                           ![r].authDone = TRUE,
                           ![r].authAi = HTTPMiddlewareCtx(rctx[r], resp).ai,
                           ![r].setAuth = @ + 1,
                           ![r].annotated = @ \o Annotates(rctx[r], resp)]
            /\ stage' = [stage EXCEPT ![r] = "handler"]
    /\ jwks' = HTTPMiddlewareCache(rctx[r], resp).jwks
    /\ jwksStaleAfter' = HTTPMiddlewareCache(rctx[r], resp).staleAfter
    /\ UNCHANGED <<authHook, metricsHook, responsesSent, duration, requestsReceived, rerr, started>>
    /\ UNCHANGED JUnused

\* the application handler runs and calls GetAuth
Handler(r) ==
    /\ stage[r] = "handler"
    /\ hist' = [hist EXCEPT ![r].handlerRan = TRUE, ![r].got = GetAuth(rctx[r]),
                            ![r].handled = @ + 1]
    /\ stage' = [stage EXCEPT ![r] = "sent"]
    /\ UNCHANGED <<authHook, metricsHook, responsesSent, duration, requestsReceived, rctx, rerr, started,
                   jwks, jwksStaleAfter>>
    /\ UNCHANGED JUnused

\* the error response of a failed request is written
Failed(r) ==
    /\ stage[r] = "failed"
    /\ stage' = [stage EXCEPT ![r] = "sent"]
    /\ UNCHANGED <<authHook, metricsHook, responsesSent, duration, requestsReceived, rctx, rerr, hist, started,
                   jwks, jwksStaleAfter>>
    /\ UNCHANGED JUnused

\* a start time that is shared by the requests: the one stored last
StartOfLatest(r) ==
    LET stored == {q \in Requests : rctx[q].start.ok}
    IN IF stored = {} THEN rctx[r].start
       ELSE rctx[CHOOSE q \in stored : \A p \in stored : rctx[p].start.at <= rctx[q].start.at].start

\* ctx.Value(reqStartTimestampKey) in ResponseSent: the value in the context of
\* the request itself
StartOf(r) == rctx[r].start

\* the ResponseSent hook of a Twirp request, after its response was written
ResponseSent(r) ==
    /\ stage[r] = "sent"
    /\ hist[r].via = "twirp"
    /\ ~hist[r].responded
    /\ LET recorded == RecordsResponse(metricsHook, rctx[r])
           observed == recorded /\ Observes(rctx[r])
           organisation == contextOrg(rctx[r])
           status == StatusCode(rerr[r])
       IN /\ responsesSent' =
                 IF recorded
                 THEN [responsesSent EXCEPT ![<<status, organisation>>] = @ + 1]
                 ELSE responsesSent
          /\ duration' =
                 IF observed THEN [duration EXCEPT ![organisation] = @ + 1] ELSE duration
          /\ hist' = [hist EXCEPT
                         ![r].responded = TRUE,
                         ![r].resps = IF recorded
                                      THEN Append(@, <<status, organisation>>)
                                      ELSE @,
                         ![r].obs = IF observed THEN Append(@, organisation) ELSE @,
                         ![r].durs = IF observed
                                     THEN Append(@, Observed(metricsHook, StartOf(r), now))
                                     ELSE @]
    /\ UNCHANGED <<authHook, metricsHook, requestsReceived, stage, rctx, rerr, started,
                   jwks, jwksStaleAfter>>
    /\ UNCHANGED JUnused

\* the request is over; its slot serves the next one
Finish(r) ==
    /\ stage[r] = "sent"
    /\ hist[r].via = "twirp" => hist[r].responded
    /\ stage' = [stage EXCEPT ![r] = "none"]
    /\ rctx' = [rctx EXCEPT ![r] = Background]
    /\ rerr' = [rerr EXCEPT ![r] = NilErr]
    /\ hist' = [hist EXCEPT ![r] = NoHist]
    /\ UNCHANGED <<authHook, metricsHook, responsesSent, duration, requestsReceived, started, jwks, jwksStaleAfter>>
    /\ UNCHANGED JUnused

HNext ==
    \/ \E r \in Requests, present \in BOOLEAN, auth \in Authorizations, names \in BOOLEAN :
          TwirpRequest(r, present, auth, names)
    \/ \E r \in Requests, resp \in Responses : AuthStage(r, resp)
    \/ \E r \in Requests : MetricsStage(r)
    \/ \E r \in Requests : Dispatch(r)
    \/ \E r \in Requests, auth \in Authorizations : HTTPRequest(r, auth)
    \/ \E r \in Requests, resp \in Responses : HTTPMiddleware(r, resp)
    \/ \E r \in Requests : Handler(r)
    \/ \E r \in Requests : Failed(r)
    \/ \E r \in Requests : ResponseSent(r)
    \/ \E r \in Requests : Finish(r)

-----------------------------------------------------------------------------
(* Callers of ValidateToken *)

\* token strings given to ValidateToken; the last one is no JWT at all
Tokens == {<<"good">>, <<"idtoken">>, <<"forged">>, <<"hmac">>, <<"expired">>,
           <<"otherkid">>, <<"nokid">>, <<"numkid">>, <<"garbage">>}

\* TokenTypeAccessToken, TokenTypeIDToken
TokenTypes == {"access_token", "id_token"}

\* The calls made: caller 1 presents any token, asking for an access token, or for
\* an id token with the two tokens where that matters; caller 2 presents the valid
\* access token; further callers make no call.
Validations(c) ==
    IF c = 1
    THEN (Tokens \X {TokenTypeAccessToken})
         \cup ({<<"good">>, <<"idtoken">>} \X {"id_token"})
    ELSE IF c = 2
    THEN {<<(<<"good">>), TokenTypeAccessToken>>}
    ELSE {}

NoVRet == [claims |-> NoClaims, err |-> <<"none">>, panic |-> FALSE]

\* no ValidateToken call is in progress
NoValidations ==
    /\ vtok = [c \in Callers |-> <<>>]
    /\ vtype = [c \in Callers |-> ""]
    /\ vret = [c \in Callers |-> NoVRet]
    /\ cancelled = [c \in Callers |-> FALSE]

\* ValidateToken(tok, tokenType) up to the call of j.getKey in the key function:
\* jwt.ParseWithClaims decodes the token, the key function checks the signing
\* method and the token type and takes the kid from the header
Parse(c, tok, tokenType) ==
    /\ pc[c] = "idle"
    /\ <<tok, tokenType>> \in Validations(c)
    /\ calls < MaxCalls
    /\ calls' = calls + 1
    /\ vtok' = [vtok EXCEPT ![c] = tok]
    /\ vtype' = [vtype EXCEPT ![c] = tokenType]
    /\ LET t == TokenOf(tok)
           why == RejectedBeforeKey(t, tokenType)
       IN IF why # ""
          THEN /\ pc' = [pc EXCEPT ![c] = "vdone"]
               /\ vret' = [vret EXCEPT ![c] = ParseFailed(why)]
               /\ UNCHANGED <<kid, calledStale>>
          ELSE IF KidPanics(t)
          THEN /\ pc' = [pc EXCEPT ![c] = "panicked"]
               /\ vret' = [vret EXCEPT ![c] = Panicked]
               /\ UNCHANGED <<kid, calledStale>>
          ELSE /\ pc' = [pc EXCEPT ![c] = "lock"]
               /\ kid' = [kid EXCEPT ![c] = t.kid]
               /\ calledStale' = [calledStale EXCEPT ![c] = now > jwksStaleAfter]
               /\ UNCHANGED vret
    /\ UNCHANGED <<now, ttl, m, jwksStaleAfter, jwks, res, ret, seen, fetches, cancelled>>
    /\ UNCHANGED <<hvars, cvars, uvars>>

\* the context of the caller's request is cancelled, or its deadline passes, while
\* the caller's fetch is in flight
Cancel(c) ==
    /\ pc[c] = "fetch"
    /\ ~cancelled[c]
    /\ cancelled' = [cancelled EXCEPT ![c] = TRUE]
    /\ UNCHANGED <<vtok, vtype, vret>>
    /\ UNCHANGED <<jvars, hvars, cvars, uvars>>

\* ValidateToken from the return of j.getKey on
Verify(c) ==
    /\ pc[c] = "done"
    /\ vret' = [vret EXCEPT ![c] = VerifyWithKey(TokenOf(vtok[c]), ret[c])]
    /\ pc' = [pc EXCEPT ![c] = "vdone"]
    /\ UNCHANGED <<now, ttl, m, jwksStaleAfter, jwks, kid, res, ret, seen, fetches, calls,
                   calledStale>>
    /\ UNCHANGED <<vtok, vtype, cancelled>>
    /\ UNCHANGED <<hvars, cvars, uvars>>

\* the caller takes ValidateToken's result and goes on
VReturn(c) ==
    /\ pc[c] = "vdone"
    /\ pc' = [pc EXCEPT ![c] = "idle"]
    /\ ret' = [ret EXCEPT ![c] = NoRet]
    /\ kid' = [kid EXCEPT ![c] = ""]
    /\ calledStale' = [calledStale EXCEPT ![c] = FALSE]
    /\ vtok' = [vtok EXCEPT ![c] = <<>>]
    /\ vtype' = [vtype EXCEPT ![c] = ""]
    /\ vret' = [vret EXCEPT ![c] = NoVRet]
    /\ cancelled' = [cancelled EXCEPT ![c] = FALSE]
    /\ UNCHANGED <<now, ttl, m, jwksStaleAfter, jwks, res, seen, fetches, calls>>
    /\ UNCHANGED <<hvars, cvars, uvars>>

VNext ==
    \/ \E c \in Callers, tok \in Tokens, tokenType \in TokenTypes : Parse(c, tok, tokenType)
    \/ \E c \in Callers : Cancel(c)
    \/ \E c \in Callers : Lock(c)
    \/ \E c \in Callers : CheckStale(c)
    \/ \E c \in Callers, resp \in Responses : FetchReturn(c, resp)
    \/ \E c \in Callers : FetchFailed(c)
    \/ \E c \in Callers : Install(c)
    \/ \E c \in Callers : Scan(c)
    \/ \E c \in Callers : Verify(c)
    \/ \E c \in Callers : VReturn(c)
    \/ Tick

-----------------------------------------------------------------------------
(* Any Authorization header *)

\* the words a header value is made of
HeaderWords == {"Bearer", "bearer", "Basic", "good", Space}

\* header.Get("Authorization"): every value of up to MaxHeaderLen words, the empty
\* one for a request without the header
Headers == UNION {[1..n -> HeaderWords] : n \in 0..MaxHeaderLen}

\* HTTP requests arrive one after the other, with any Authorization header
HeaderNext ==
    \/ \E auth \in Headers : HTTPRequest(1, auth)
    \/ \E resp \in Responses : HTTPMiddleware(1, resp)
    \/ Handler(1)
    \/ Finish(1)

\* the Authorization headers of requests to a handler behind HTTPMiddleware: none,
\* another scheme, and bearer tokens that are valid, forged, expired, without a
\* key id or no JWT at all
MiddlewareAuthorizations ==
    Authorizations
    \cup {<<"Bearer", Space, tok>> : tok \in {"expired", "nokid", "garbage"}}

\* net/http recovers the panic of a handler, logs it and closes the connection:
\* the request is over without a response
Recovered(r) ==
    /\ stage[r] = "panicked"
    /\ stage' = [stage EXCEPT ![r] = "none"]
    /\ rctx' = [rctx EXCEPT ![r] = Background]
    /\ rerr' = [rerr EXCEPT ![r] = NilErr]
    /\ hist' = [hist EXCEPT ![r] = NoHist]
    /\ UNCHANGED <<authHook, metricsHook, responsesSent, duration, requestsReceived, started,
                   jwks, jwksStaleAfter>>
    /\ UNCHANGED JUnused

\* HTTP requests with any of these headers pass through HTTPMiddleware
MiddlewareNext ==
    \/ \E r \in Requests, auth \in MiddlewareAuthorizations : HTTPRequest(r, auth)
    \/ \E r \in Requests, resp \in Responses : HTTPMiddleware(r, resp)
    \/ \E r \in Requests : Handler(r)
    \/ \E r \in Requests : Finish(r)
    \/ \E r \in Requests : Recovered(r)

-----------------------------------------------------------------------------
(* SetAuth and GetAuth on derived contexts *)

\* an AuthInfo with a token and claims in it
SomeAuthInfo == [AccessToken |-> <<"good">>, Claims |-> ClaimsOf(TokenOf(<<"good">>))]

\* the values SetAuth is called with
AuthInfos == {NoAuthInfo, SomeAuthInfo}

AuthErrs == {NilErr, ErrNoToken, ParseFailed("malformed").err}

NoGetAuth == [n |-> 0, r |-> NoGot]

\* only context.Background() exists and GetAuth has not been called
NoContexts ==
    /\ ctxs = RootContexts
    /\ got = NoGetAuth

\* ctx2 := SetAuth(ctx, auth, err)
SetAuthCall(n, auth, err) ==
    /\ Len(ctxs) < MaxContexts
    /\ ctxs' = WithAuth(ctxs, n, auth, err)
    /\ UNCHANGED got
    /\ UNCHANGED <<jvars, hvars, tvars, uvars>>

\* a context is derived from ctx for something else: context.WithValue with another
\* key, r.WithContext
DeriveCall(n) ==
    /\ Len(ctxs) < MaxContexts
    /\ ctxs' = Derived(ctxs, n)
    /\ UNCHANGED got
    /\ UNCHANGED <<jvars, hvars, tvars, uvars>>

\* GetAuth(ctx)
GetAuthCall(n) ==
    /\ got' = [n |-> n, r |-> GetAuthAt(ctxs, n)]
    /\ UNCHANGED ctxs
    /\ UNCHANGED <<jvars, hvars, tvars, uvars>>

ContextNext ==
    \/ \E n \in 1..Len(ctxs), auth \in AuthInfos, err \in AuthErrs : SetAuthCall(n, auth, err)
    \/ \E n \in 1..Len(ctxs) : DeriveCall(n)
    \/ \E n \in 1..Len(ctxs) : GetAuthCall(n)

-----------------------------------------------------------------------------
(* Permission checks (navigaid/claims.go) *)

\* bound: the length of a list of permissions
MaxPermissions == 2

PermissionNames == {"access-building", "read-files"}

UnitNames == {"mi6", "mi5"}

\* a []string of permissions
PermissionLists == UNION {[1..n -> PermissionNames] : n \in 0..MaxPermissions}

\* PermissionsClaim: Org, and Units, a map that has some of the units
PermissionsClaims ==
    {[Org |-> o, Units |-> u] :
        o \in PermissionLists,
        u \in UNION {[d -> PermissionLists] : d \in SUBSET UnitNames}}

\* p.Units[unit]: the nil slice when the map has no such unit
UnitsAt(p, unit) == IF unit \in DOMAIN p.Units THEN p.Units[unit] ELSE <<>>

\* for _, op := range list { m[op] = true }, the map[string]bool m being the set of
\* its keys (only true is ever stored, and a missing key reads as false)
RECURSIVE MarkAll(_, _)
MarkAll(marked, list) ==
    IF list = <<>> THEN marked
    ELSE MarkAll(marked \cup {Head(list)}, Tail(list))

PermissionsInOrganisation(p) == MarkAll({}, p.Org)

\* a PermissionsInUnit that counts the permissions of every unit
PermissionsInUnitAnyUnit(p, unit) ==
    MarkAll({}, p.Org) \cup UNION {MarkAll({}, p.Units[u]) : u \in DOMAIN p.Units}

PermissionsInUnit(p, unit) == MarkAll(MarkAll({}, p.Org), UnitsAt(p, unit))

\* for _, p := range permissions { if !perms[p] { return false } }; return true
RECURSIVE HasAll(_, _)
HasAll(perms, required) ==
    IF required = <<>> THEN TRUE
    ELSE IF Head(required) \notin perms THEN FALSE
    ELSE HasAll(perms, Tail(required))

HasPermissionsInUnit(p, unit, required) == HasAll(PermissionsInUnit(p, unit), required)

HasPermissionsInOrganisation(p, required) == HasAll(PermissionsInOrganisation(p), required)

NoCheck == [fn |-> "none", unit |-> "", required |-> <<>>, result |-> FALSE]

\* no claims are checked for permissions
NoPermissionChecks ==
    /\ permissions = [Org |-> <<>>, Units |-> <<>>]
    /\ checked = NoCheck

\* c.HasPermissionsInUnit(unit, required...)
CheckInUnit(unit, required) ==
    /\ checked' = [fn |-> "HasPermissionsInUnit", unit |-> unit, required |-> required,
                   result |-> HasPermissionsInUnit(permissions, unit, required)]
    /\ UNCHANGED permissions
    /\ UNCHANGED PermissionUnused

\* c.HasPermissionsInOrganisation(required...)
CheckInOrganisation(required) ==
    /\ checked' = [fn |-> "HasPermissionsInOrganisation", unit |-> "",
                   required |-> required,
                   result |-> HasPermissionsInOrganisation(permissions, required)]
    /\ UNCHANGED permissions
    /\ UNCHANGED PermissionUnused

PermissionNext ==
    \/ \E unit \in UnitNames, required \in PermissionLists : CheckInUnit(unit, required)
    \/ \E required \in PermissionLists : CheckInOrganisation(required)

-----------------------------------------------------------------------------
(* Setting up the hooks and the application (NewTwirpMetricsHooks,            *)
(* StandardTwirpHooks, NewStandardApp)                                       *)

\* bound: the number of set-up calls made on one Registerer
MaxSetups == 2

\* the collectors of NewTwirpMetricsHooks, in the order they are registered
MetricNames == <<"rpc_requests_total", "rpc_duration", "rpc_responses_total">>

\* prometheus.AlreadyRegisteredError
AlreadyRegistered == <<"duplicate metrics collector registration attempted">>

\* opt.reg.Register(collector)
Register(reg, name) ==
    IF name \in reg
    THEN [reg |-> reg, err |-> AlreadyRegistered]
    ELSE [reg |-> reg \cup {name}, err |-> NilErr]

\* the three registrations of NewTwirpMetricsHooks: the first that fails ends them,
\* with fmt.Errorf("failed to register metric: %w", err)
RECURSIVE RegisterAll(_, _)
RegisterAll(reg, names) ==
    IF names = <<>> THEN [reg |-> reg, err |-> NilErr]
    ELSE LET r == Register(reg, Head(names))
         IN IF r.err # NilErr
            THEN [reg |-> r.reg, err |-> <<"failed to register metric: %w">> \o r.err]
            ELSE RegisterAll(r.reg, Tail(names))

\* a nil *twirp.ServerHooks
NoServerHooks == [nil |-> TRUE, metrics |-> "nil", auth |-> "nil", errorLogging |-> FALSE]

\* the hooks of NewTwirpMetricsHooks, as CombineMetricsAndAuthHooks receives them
PrometheusHooks ==
    [kind |-> "prometheus", own |-> FALSE, fails |-> FALSE, testLatency |-> 0]

NewTwirpMetricsHooks(reg) ==
    LET r == RegisterAll(reg, MetricNames)
    IN IF r.err # NilErr
       THEN [hooks |-> NoServerHooks, err |-> r.err, reg |-> r.reg]
       ELSE [hooks |-> [nil |-> FALSE, metrics |-> "prometheus", auth |-> "nil",
                        errorLogging |-> FALSE],
             err |-> NilErr, reg |-> r.reg]

\* TwirpHookOptions: AuthHook (nil or the hooks of NewTwirpAuthHook) and ImasURL
\* (empty or not)
HookOptions == [AuthHook : AuthHooks, ImasURL : BOOLEAN]

\* a StandardTwirpHooks that goes on without metrics when they cannot be registered
StandardTwirpHooksTolerant(reg, opts) ==
    LET metrics == NewTwirpMetricsHooks(reg)
        auth == IF opts.AuthHook # "nil" THEN opts.AuthHook
                ELSE IF opts.ImasURL THEN "navigaid" ELSE "nil"
    IN [hooks |-> [nil |-> FALSE, metrics |-> metrics.hooks.metrics, auth |-> auth,
                   errorLogging |-> TRUE],
        err |-> NilErr, reg |-> metrics.reg]

StandardTwirpHooks(reg, opts) ==
    LET metrics == NewTwirpMetricsHooks(reg)
        auth == IF opts.AuthHook # "nil" THEN opts.AuthHook
                ELSE IF opts.ImasURL THEN "navigaid" ELSE "nil"
    IN IF metrics.err # NilErr
       THEN [hooks |-> NoServerHooks, err |-> metrics.err, reg |-> metrics.reg]
       ELSE [hooks |-> [metrics.hooks EXCEPT !.auth = auth, !.errorLogging = TRUE],
             err |-> NilErr, reg |-> metrics.reg]

\* NewStandardApp: the hooks are made only for an application that has services;
\* servers: app.Server and app.internalServer were made, the *StandardApp is not nil
NewStandardApp(reg, services, opts) ==
    IF services
    THEN LET twirpHooks == StandardTwirpHooks(reg, opts)
         IN IF twirpHooks.err # NilErr
            THEN [hooks |-> NoServerHooks, servers |-> FALSE, err |-> twirpHooks.err,
                  reg |-> twirpHooks.reg]
            ELSE [hooks |-> twirpHooks.hooks, servers |-> TRUE, err |-> NilErr,
                  reg |-> twirpHooks.reg]
    ELSE [hooks |-> NoServerHooks, servers |-> TRUE, err |-> NilErr, reg |-> reg]

NoHookErr == [setup |-> 0, err |-> NilErr]

\* an Error hook that logs nothing for a request that was not authenticated
ErrorLoggingSkipsUnauthenticated(ctx, twerr) ==
    [ctx |-> ctx,
     logs |-> IF twerr.code = "unauthenticated" THEN <<>>
              ELSE <<[msg |-> "error response",
                      status_code |-> ServerHTTPStatusFromErrorCode(twerr.code),
                      twirp_code |-> twerr.code,
                      twirp_msg |-> twerr.msg,
                      twirp_meta |-> twerr.meta]>>]

\* the Error hook of NewErrorLoggingHooks: one logger.ErrorContext(ctx, "error
\* response", ...) with the status, the code, the message and, when the error has
\* a meta map, the meta map; the context is returned as it came
ErrorLoggingError(ctx, twerr) ==
    [ctx |-> ctx,
     logs |-> <<[msg |-> "error response",
                 status_code |-> ServerHTTPStatusFromErrorCode(twerr.code),
                 twirp_code |-> twerr.code,
                 twirp_msg |-> twerr.msg,
                 twirp_meta |-> twerr.meta]>>]

\* the Error hooks of the chain twirp.ChainHooks made, in the order they are
\* called: the hooks of NewTwirpMetricsHooks and of NewTwirpAuthHook have none
ErrorHooks(hooks) == IF hooks.errorLogging THEN <<"NewErrorLoggingHooks">> ELSE <<>>

\* the Error hook of twirp.ChainHooks: every Error hook of the chain is called, each
\* with the context the one before it returned
RECURSIVE ChainedError(_, _, _)
ChainedError(chain, ctx, twerr) ==
    IF chain = <<>> THEN [ctx |-> ctx, logs |-> <<>>]
    ELSE LET first == ErrorLoggingError(ctx, twerr)
             rest == ChainedError(Tail(chain), first.ctx, twerr)
         IN  [ctx |-> rest.ctx, logs |-> first.logs \o rest.logs]

NoErrorEvent ==
    [setup |-> 0, stage |-> "none", err |-> NilErr, ctx |-> Background,
     ret |-> Background, status |-> "200"]

\* no Error event was fired, nothing is logged
NoErrorEvents ==
    /\ logged = <<>>
    /\ errEvent = NoErrorEvent

\* nothing is registered, nothing is set up
NoSetups ==
    /\ registered = {}
    /\ setups = <<>>
    /\ hookErr = NoHookErr

\* what the set-up calls leave alone
SetupUnused == <<jvars, hvars, tvars, cvars, pvars, avars, evars, xvars, hookErr>>

\* the errors the handler of a service returns
HandlerErrs == {NilErr, PermissionDenied, <<"database error">>}

\* a call of NewTwirpMetricsHooks with the Registerer
NewTwirpMetricsHooksCall ==
    /\ Len(setups) < MaxSetups
    /\ LET r == NewTwirpMetricsHooks(registered)
       IN /\ registered' = r.reg
          /\ setups' = Append(setups, [fn |-> "NewTwirpMetricsHooks", before |-> registered,
                                       registers |-> TRUE, hooks |-> r.hooks,
                                       servers |-> FALSE, err |-> r.err])
    /\ UNCHANGED SetupUnused

\* a call of StandardTwirpHooks
StandardTwirpHooksCall(opts) ==
    /\ Len(setups) < MaxSetups
    /\ LET r == StandardTwirpHooks(registered, opts)
       IN /\ registered' = r.reg
          /\ setups' = Append(setups, [fn |-> "StandardTwirpHooks", before |-> registered,
                                       registers |-> TRUE, hooks |-> r.hooks,
                                       servers |-> FALSE, err |-> r.err])
    /\ UNCHANGED SetupUnused

\* a call of NewStandardApp, with WithAppService or without
NewStandardAppCall(services, opts) ==
    /\ Len(setups) < MaxSetups
    /\ LET r == NewStandardApp(registered, services, opts)
       IN /\ registered' = r.reg
          /\ setups' = Append(setups, [fn |-> "NewStandardApp", before |-> registered,
                                       registers |-> services, hooks |-> r.hooks,
                                       servers |-> r.servers, err |-> r.err])
    /\ UNCHANGED SetupUnused

\* a Twirp server made with the hooks of set-up i serves a request: RequestReceived,
\* RequestRouted, the handler unless the hook returned an error, the Error hook
\* when the hook or the handler returned an error, ResponseSent
ServeRequest(i, auth, resp, herr) ==
    /\ i \in DOMAIN setups
    /\ ~setups[i].hooks.nil
    /\ started < MaxRequests
    /\ LET hooks == setups[i].hooks
           received == [headers |-> [present |-> TRUE, Authorization |-> auth],
                        names |-> TRUE, ai |-> NoAi,
                        start |-> StartTimestamp(PrometheusHooks, now)]
           a == IF hooks.auth = "nil"
                THEN [ctx |-> received, err |-> NilErr]
                ELSE TwirpAuthenticate(received, resp)
           cache == IF hooks.auth = "nil"
                    THEN [jwks |-> jwks, staleAfter |-> jwksStaleAfter]
                    ELSE TwirpAuthenticateCache(received, resp)
           mr == MetricsRequestRouted(PrometheusHooks, a.ctx)
           routed == IF hooks.auth = "nil"
                     THEN mr
                     ELSE [ctx |-> CombineCtx(a.ctx, mr), err |-> CombineErr(a.err, mr.err)]
           err == IF routed.err # NilErr THEN routed.err ELSE herr
           status == StatusCode(err)
           fired == ChainedError(ErrorHooks(hooks), routed.ctx, TwirpErrorOf(err))
       IN /\ hookErr' = [setup |-> i, err |-> routed.err]
          /\ IF err # NilErr
             THEN /\ logged' = logged \o fired.logs
                  /\ errEvent' = [setup |-> i,
                                  stage |-> IF routed.err # NilErr THEN "RequestRouted"
                                            ELSE "handler",
                                  err |-> err, ctx |-> routed.ctx, ret |-> fired.ctx,
                                  status |-> status]
             ELSE /\ logged' = logged
                  /\ errEvent' = [NoErrorEvent EXCEPT !.setup = i]
          /\ requestsReceived' = [requestsReceived EXCEPT ![contextOrg(a.ctx)] = @ + 1]
          /\ responsesSent' =
                 [responsesSent EXCEPT ![<<status, contextOrg(routed.ctx)>>] = @ + 1]
          /\ duration' = [duration EXCEPT ![contextOrg(routed.ctx)] = @ + 1]
          /\ jwks' = cache.jwks
          /\ jwksStaleAfter' = cache.staleAfter
    /\ started' = started + 1
    /\ UNCHANGED <<authHook, metricsHook, stage, rctx, rerr, hist>>
    /\ UNCHANGED <<pc, kid, res, ret, seen, fetches, calledStale, calls, m, now, ttl>>
    /\ UNCHANGED <<tvars, cvars, pvars, avars, evars, kvars, registered, setups>>
    /\ UNCHANGED <<outErr, logEntries, closes, lclose>>

SetupNext ==
    \/ NewTwirpMetricsHooksCall
    \/ \E opts \in HookOptions : StandardTwirpHooksCall(opts)
    \/ \E services \in BOOLEAN, opts \in HookOptions : NewStandardAppCall(services, opts)
    \/ \E i \in 1..MaxSetups, auth \in Authorizations, resp \in Responses,
            herr \in HandlerErrs :
          ServeRequest(i, auth, resp, herr)

-----------------------------------------------------------------------------
(* The annotation bag (ContextAnnotations, http.go) *)

\* bound: the number of threads that use one bag
NumThreads == 2

\* bound: the number of accessor calls made on one bag
MaxAccesses == 3

\* bound: the number of TestEnv values in the process
NumTestEnvs == 2

\* bound: how often one TestEnv sets one variable
MaxSets == 2

\* bound: the number of closes deferred in one function
MaxCloses == 3

\* the longest exponent of a key, in bytes
MaxExponentLen == 8

\* the bytes of a uint64
uint64Len == 8

Threads == 1..NumThreads

AnnotationKeys == {"k1", "k2"}

\* values passed as interface{}, one of each dynamic type looked at
Values ==
    {[type |-> "bool", v |-> "true"], [type |-> "int", v |-> "1"],
     [type |-> "uint", v |-> "1"], [type |-> "float32", v |-> "0.5"],
     [type |-> "float64", v |-> "0.5"], [type |-> "string", v |-> "a"],
     [type |-> "int64", v |-> "1"], [type |-> "uint8", v |-> "1"],
     [type |-> "[]string", v |-> "[a]"], [type |-> "nil", v |-> "nil"]}

\* the value of one type
ValueOf(type) == CHOOSE value \in Values : value.type = type

\* a map without entries, and the nil map
NoEntries == [k \in {} |-> ValueOf("nil")]

\* m[key] = value
Put(entries, key, value) ==
    [k \in DOMAIN entries \cup {key} |-> IF k = key THEN value ELSE entries[k]]

\* delete(m, key)
Delete(entries, key) == [k \in DOMAIN entries \ {key} |-> entries[k]]

\* the addresses of the maps: the two of the bag, the two of the segment, and for
\* each thread the map its latest Get call made; 0 is the nil map
Nil == 0

BagAnnotations == 1

BagMetadata == 2

SegmentAnnotations == 3

SegmentMetadata == 4

Returned(t) == 4 + t

Addresses == 1..(4 + NumThreads)

\* switch value.(type) { case bool, int, uint, float32, float64, string: ... }
StoresValue(value) == value.type \in {"bool", "int", "uint", "float32", "float64", "string"}

\* a copyInterfaceMap that returns the source map itself
copyInterfaceMapShared(h, source, t) == [heap |-> h, addr |-> source]

\* copyInterfaceMap(source), called by thread t: nil for a map without entries,
\* else a new map with the entries of source
copyInterfaceMap(h, source, t) ==
    IF source = Nil \/ DOMAIN h[source] = {}
    THEN [heap |-> h, addr |-> Nil]
    ELSE [heap |-> [h EXCEPT ![Returned(t)] = h[source]], addr |-> Returned(t)]

NoCall == [fn |-> "none", key |-> "", value |-> ValueOf("nil")]

NoReturn == [val |-> "", addr |-> Nil]

\* no bag is made
NoAnnotations ==
    /\ standalone = TRUE
    /\ bag = [id |-> "", user |-> "", annotations |-> Nil, metadata |-> Nil]
    /\ segment = [TraceID |-> "", User |-> "", Annotations |-> Nil, Metadata |-> Nil]
    /\ heap = [a \in Addresses |-> NoEntries]
    /\ bagM = 0
    /\ segM = 0
    /\ tpc = [t \in Threads |-> "idle"]
    /\ top = [t \in Threads |-> NoCall]
    /\ tret = [t \in Threads |-> NoReturn]
    /\ accesses = 0

\* ContextWithAnnotations: the bag is standalone when the context has no segment (or
\* a dummy one, or the SDK is disabled) and then has an id and two empty maps of its
\* own; else it has the segment, whose maps are nil until something is added
ContextWithAnnotations ==
    /\ standalone \in BOOLEAN
    /\ bag = IF standalone
             THEN [id |-> "uuid", user |-> "", annotations |-> BagAnnotations,
                   metadata |-> BagMetadata]
             ELSE [id |-> "", user |-> "", annotations |-> Nil, metadata |-> Nil]
    /\ segment = IF standalone
                 THEN [TraceID |-> "", User |-> "", Annotations |-> Nil, Metadata |-> Nil]
                 ELSE [TraceID |-> "trace", User |-> "", Annotations |-> Nil,
                       Metadata |-> Nil]
    /\ heap = [a \in Addresses |-> NoEntries]
    /\ bagM = 0
    /\ segM = 0
    /\ tpc = [t \in Threads |-> "idle"]
    /\ top = [t \in Threads |-> NoCall]
    /\ tret = [t \in Threads |-> NoReturn]
    /\ accesses = 0

\* what the accessors of the bag leave alone
AnnotationUnused == <<jvars, hvars, tvars, cvars, pvars, svars, evars, xvars, standalone>>

\* the same, for the steps inside an accessor and those of the callers
AccessorUnused == <<AnnotationUnused, accesses>>

\* segment.AddAnnotation returns an error before it locks the segment when the
\* value is not of a type it stores
SegmentRefuses(call) == call.fn = "AddAnnotation" /\ ~StoresValue(call.value)

\* a thread calls an accessor: up to the first Lock
Begin(t, call) ==
    /\ tpc[t] = "idle"
    /\ accesses < MaxAccesses
    /\ accesses' = accesses + 1
    /\ top' = [top EXCEPT ![t] = call]
    /\ tret' = [tret EXCEPT ![t] = NoReturn]
    /\ tpc' = [tpc EXCEPT ![t] =
                  IF standalone THEN "lockM"
                  ELSE IF SegmentRefuses(call) THEN "idle"
                  ELSE "lockSegment"]
    /\ UNCHANGED <<bag, segment, heap, bagM, segM>>
    /\ UNCHANGED AnnotationUnused

\* a.segment.Lock(), also inside segment.AddAnnotation and segment.AddMetadata
LockSegment(t) ==
    /\ tpc[t] = "lockSegment"
    /\ segM = 0
    /\ segM' = t
    /\ tpc' = [tpc EXCEPT ![t] = "segment"]
    /\ UNCHANGED <<bag, segment, heap, bagM, top, tret>>
    /\ UNCHANGED AccessorUnused

\* an OnSegment whose SetUser leaves the user of the segment as it is
OnSegmentKeepsUser(t) ==
    /\ tpc[t] = "segment"
    /\ LET call == top[t]
           annotations == IF segment.Annotations = Nil THEN SegmentAnnotations
                          ELSE segment.Annotations
           metadata == IF segment.Metadata = Nil THEN SegmentMetadata
                       ELSE segment.Metadata
           copy == copyInterfaceMap(heap,
                       IF call.fn = "GetAnnotations" THEN segment.Annotations
                       ELSE segment.Metadata, t)
       IN CASE call.fn = "AddAnnotation" ->
                 /\ segment' = [segment EXCEPT !.Annotations = annotations]
                 /\ heap' = [heap EXCEPT ![annotations] = Put(@, call.key, call.value)]
                 /\ UNCHANGED tret
            [] call.fn = "AddMetadata" ->
                 /\ segment' = [segment EXCEPT !.Metadata = metadata]
                 /\ heap' = [heap EXCEPT ![metadata] = Put(@, call.key, call.value)]
                 /\ UNCHANGED tret
            [] call.fn = "SetUser" ->
                 /\ UNCHANGED <<segment, heap, tret>>
            [] call.fn = "GetID" ->
                 /\ tret' = [tret EXCEPT ![t] = [val |-> segment.TraceID, addr |-> Nil]]
                 /\ UNCHANGED <<segment, heap>>
            [] call.fn = "GetUser" ->
                 /\ tret' = [tret EXCEPT ![t] = [val |-> segment.User, addr |-> Nil]]
                 /\ UNCHANGED <<segment, heap>>
            [] call.fn \in {"GetAnnotations", "GetMetadata"} ->
                 /\ heap' = copy.heap
                 /\ tret' = [tret EXCEPT ![t] = [val |-> "", addr |-> copy.addr]]
                 /\ UNCHANGED segment
    /\ tpc' = [tpc EXCEPT ![t] = IF top[t].fn = "SetUser" THEN "lockM" ELSE "unlockSegment"]
    /\ UNCHANGED <<bag, bagM, segM, top>>
    /\ UNCHANGED AccessorUnused

\* the accessor reads or writes the segment
OnSegment(t) ==
    /\ tpc[t] = "segment"
    /\ LET call == top[t]
           annotations == IF segment.Annotations = Nil THEN SegmentAnnotations
                          ELSE segment.Annotations
           metadata == IF segment.Metadata = Nil THEN SegmentMetadata
                       ELSE segment.Metadata
           copy == copyInterfaceMap(heap,
                       IF call.fn = "GetAnnotations" THEN segment.Annotations
                       ELSE segment.Metadata, t)
       IN CASE call.fn = "AddAnnotation" ->
                 /\ segment' = [segment EXCEPT !.Annotations = annotations]
                 /\ heap' = [heap EXCEPT ![annotations] = Put(@, call.key, call.value)]
                 /\ UNCHANGED tret
            [] call.fn = "AddMetadata" ->
                 /\ segment' = [segment EXCEPT !.Metadata = metadata]
                 /\ heap' = [heap EXCEPT ![metadata] = Put(@, call.key, call.value)]
                 /\ UNCHANGED tret
            [] call.fn = "SetUser" ->
                 /\ segment' = [segment EXCEPT !.User = call.value.v]
                 /\ UNCHANGED <<heap, tret>>
            [] call.fn = "GetID" ->
                 /\ tret' = [tret EXCEPT ![t] = [val |-> segment.TraceID, addr |-> Nil]]
                 /\ UNCHANGED <<segment, heap>>
            [] call.fn = "GetUser" ->
                 /\ tret' = [tret EXCEPT ![t] = [val |-> segment.User, addr |-> Nil]]
                 /\ UNCHANGED <<segment, heap>>
            [] call.fn \in {"GetAnnotations", "GetMetadata"} ->
                 /\ heap' = copy.heap
                 /\ tret' = [tret EXCEPT ![t] = [val |-> "", addr |-> copy.addr]]
                 /\ UNCHANGED segment
    /\ tpc' = [tpc EXCEPT ![t] = IF top[t].fn = "SetUser" THEN "lockM" ELSE "unlockSegment"]
    /\ UNCHANGED <<bag, bagM, segM, top>>
    /\ UNCHANGED AccessorUnused

\* a Lock of a.m that does not wait for the mutex to be free
LockMNoWait(t) ==
    /\ tpc[t] = "lockM"
    /\ bagM' = t
    /\ tpc' = [tpc EXCEPT ![t] = "own"]
    /\ UNCHANGED <<bag, segment, heap, segM, top, tret>>
    /\ UNCHANGED AccessorUnused

\* a.m.Lock()
LockM(t) ==
    /\ tpc[t] = "lockM"
    /\ bagM = 0
    /\ bagM' = t
    /\ tpc' = [tpc EXCEPT ![t] = "own"]
    /\ UNCHANGED <<bag, segment, heap, segM, top, tret>>
    /\ UNCHANGED AccessorUnused

\* the accessor reads or writes the fields of the bag itself
OnBag(t) ==
    /\ tpc[t] = "own"
    /\ LET call == top[t]
           copy == copyInterfaceMap(heap,
                       IF call.fn = "GetAnnotations" THEN bag.annotations
                       ELSE bag.metadata, t)
       IN CASE call.fn = "AddAnnotation" ->
                 /\ heap' = IF StoresValue(call.value)
                            THEN [heap EXCEPT ![bag.annotations] =
                                                  Put(@, call.key, call.value)]
                            ELSE heap
                 /\ UNCHANGED <<bag, tret>>
            [] call.fn = "AddMetadata" ->
                 /\ heap' = [heap EXCEPT ![bag.metadata] = Put(@, call.key, call.value)]
                 /\ UNCHANGED <<bag, tret>>
            [] call.fn = "SetUser" ->
                 /\ bag' = [bag EXCEPT !.user = call.value.v]
                 /\ UNCHANGED <<heap, tret>>
            [] call.fn = "GetID" ->
                 /\ tret' = [tret EXCEPT ![t] = [val |-> bag.id, addr |-> Nil]]
                 /\ UNCHANGED <<bag, heap>>
            [] call.fn = "GetUser" ->
                 /\ tret' = [tret EXCEPT ![t] = [val |-> bag.user, addr |-> Nil]]
                 /\ UNCHANGED <<bag, heap>>
            [] call.fn \in {"GetAnnotations", "GetMetadata"} ->
                 /\ heap' = copy.heap
                 /\ tret' = [tret EXCEPT ![t] = [val |-> "", addr |-> copy.addr]]
                 /\ UNCHANGED bag
    /\ tpc' = [tpc EXCEPT ![t] = "unlockM"]
    /\ UNCHANGED <<segment, bagM, segM, top>>
    /\ UNCHANGED AccessorUnused

\* the deferred a.m.Unlock(); in SetUser on a bag with a segment the deferred
\* a.segment.Unlock() runs after it
UnlockM(t) ==
    /\ tpc[t] = "unlockM"
    /\ bagM' = 0
    /\ tpc' = [tpc EXCEPT ![t] = IF segM = t THEN "unlockSegment" ELSE "idle"]
    /\ UNCHANGED <<bag, segment, heap, segM, top, tret>>
    /\ UNCHANGED AccessorUnused

\* the deferred a.segment.Unlock()
UnlockSegment(t) ==
    /\ tpc[t] = "unlockSegment"
    /\ segM' = 0
    /\ tpc' = [tpc EXCEPT ![t] = "idle"]
    /\ UNCHANGED <<bag, segment, heap, bagM, top, tret>>
    /\ UNCHANGED AccessorUnused

\* the caller of GetAnnotations or GetMetadata sets an entry of the map it got
CallerPut(t, key, value) ==
    /\ tpc[t] = "idle"
    /\ tret[t].addr # Nil
    /\ top[t].fn \in {"GetAnnotations", "GetMetadata"}
    /\ heap' = [heap EXCEPT ![tret[t].addr] = Put(@, key, value)]
    /\ top' = [top EXCEPT ![t].key = "changed"]
    /\ UNCHANGED <<bag, segment, bagM, segM, tpc, tret>>
    /\ UNCHANGED AccessorUnused

\* the caller deletes an entry of the map it got
CallerDelete(t, key) ==
    /\ tpc[t] = "idle"
    /\ tret[t].addr # Nil
    /\ top[t].fn \in {"GetAnnotations", "GetMetadata"}
    /\ key \in DOMAIN heap[tret[t].addr]
    /\ heap' = [heap EXCEPT ![tret[t].addr] = Delete(@, key)]
    /\ top' = [top EXCEPT ![t].key = "changed"]
    /\ UNCHANGED <<bag, segment, bagM, segM, tpc, tret>>
    /\ UNCHANGED AccessorUnused

\* the AddAnnotation calls made: every kind of value under one key, one value
\* under the other
AnnotationCalls ==
    {[fn |-> "AddAnnotation", key |-> "k1", value |-> value] : value \in Values}
    \cup {[fn |-> "AddAnnotation", key |-> "k2", value |-> ValueOf("int")]}

MetadataCalls ==
    {[fn |-> "AddMetadata", key |-> "k1", value |-> ValueOf(type)] :
        type \in {"string", "[]string"}}

GetCalls == {[NoCall EXCEPT !.fn = fn] : fn \in {"GetAnnotations", "GetMetadata"}}

\* one thread adds annotations and metadata, reads them and changes the maps it got
AnnotationNext ==
    \/ \E call \in AnnotationCalls \cup MetadataCalls \cup GetCalls : Begin(1, call)
    \/ LockSegment(1)
    \/ OnSegment(1)
    \/ LockM(1)
    \/ OnBag(1)
    \/ UnlockM(1)
    \/ UnlockSegment(1)
    \/ CallerPut(1, "k2", ValueOf("string"))
    \/ \E key \in AnnotationKeys : CallerDelete(1, key)

\* the accessor calls the threads make
AccessorCalls ==
    {[fn |-> "AddAnnotation", key |-> "k1", value |-> ValueOf("int")],
     [fn |-> "AddMetadata", key |-> "k1", value |-> ValueOf("[]string")],
     [fn |-> "SetUser", key |-> "", value |-> ValueOf("string")]}
    \cup {[NoCall EXCEPT !.fn = fn] :
             fn \in {"GetID", "GetUser", "GetAnnotations", "GetMetadata"}}

\* a step of the accessor thread t is in
Progress(t) ==
    \/ LockSegment(t)
    \/ OnSegment(t)
    \/ LockM(t)
    \/ OnBag(t)
    \/ UnlockM(t)
    \/ UnlockSegment(t)

\* several threads call the accessors of one bag
AccessorNext ==
    \/ \E t \in Threads, call \in AccessorCalls : Begin(t, call)
    \/ \E t \in Threads : LockSegment(t)
    \/ \E t \in Threads : OnSegment(t)
    \/ \E t \in Threads : LockM(t)
    \/ \E t \in Threads : OnBag(t)
    \/ \E t \in Threads : UnlockM(t)
    \/ \E t \in Threads : UnlockSegment(t)

-----------------------------------------------------------------------------
(* The environment of tests (pt/env.go) *)

TestEnvs == 1..NumTestEnvs

\* the environment variables the tests set, and the values they take
EnvNames == {"A", "B"}

EnvValues == {"v1", "v2"}

\* what os.LookupEnv finds for a variable that does not exist
NotSet == "(not set)"

\* var te TestEnv: both maps nil, neither Once done
EmptyTestEnv ==
    [initOnce    |-> FALSE,
     cleanupOnce |-> FALSE,
     replacedNil |-> TRUE,
     replaced    |-> [n \in EnvNames |-> NotSet],
     unsetNil    |-> TRUE,
     unset       |-> [n \in EnvNames |-> FALSE]]

NoEnvCall == [fn |-> "none", e |-> 0, outcome |-> "ok"]

NoTestEnvs ==
    /\ environ = [n \in EnvNames |-> NotSet]
    /\ envLock = FALSE
    /\ te = [e \in TestEnvs |-> EmptyTestEnv]
    /\ fatal = FALSE
    /\ acquirer = 0
    /\ sets = [e \in TestEnvs |-> [n \in EnvNames |-> 0]]
    /\ before = [e \in TestEnvs |-> [n \in EnvNames |-> NotSet]]
    /\ elast = NoEnvCall

\* state the calls on a TestEnv do not touch
TestEnvUnused == <<jvars, hvars, tvars, cvars, pvars, svars, avars, xvars>>

\* what a call on TestEnv e works on: the process and te
World(e) ==
    [environ  |-> environ,
     envLock  |-> envLock,
     acquirer |-> acquirer,
     te       |-> te[e],
     panicked |-> FALSE,
     fatal    |-> FALSE]

\* te.init(): the first call makes the maps and locks envLock
init(w, e) ==
    IF w.te.initOnce
    THEN w
    ELSE [w EXCEPT !.te.initOnce = TRUE,
                   !.te.replacedNil = FALSE,
                   !.te.replaced = [n \in EnvNames |-> NotSet],
                   !.te.unsetNil = FALSE,
                   !.te.unset = [n \in EnvNames |-> FALSE],
                   !.envLock = TRUE,
                   !.acquirer = e]

\* envLock.Lock() in init returns only when the lock is free
InitReturns(e) == te[e].initOnce \/ ~envLock

\* the original state of each variable is recorded again at every Set
UnrecordedAlways(t, name) == TRUE

\* !replaced && !te.unset[name]: the original state of the variable is not
\* recorded yet (reading a nil map finds nothing)
Unrecorded(t, name) == t.replaced[name] = NotSet /\ ~t.unset[name]

\* te.Set(name, value); writing an entry of a nil map panics
Set(w, e, name, value) ==
    LET i == init(w, e)
        exists == i.environ[name] # NotSet
    IN  IF ~Unrecorded(i.te, name)
        THEN [i EXCEPT !.environ[name] = value]
        ELSE IF exists
        THEN IF i.te.replacedNil
             THEN [i EXCEPT !.panicked = TRUE]
             ELSE [i EXCEPT !.te.replaced[name] = i.environ[name],
                            !.environ[name] = value]
        ELSE IF i.te.unsetNil
             THEN [i EXCEPT !.panicked = TRUE]
             ELSE [i EXCEPT !.te.unset[name] = TRUE,
                            !.environ[name] = value]

\* te.SetAll(vars): Set for each entry, up to a panic; the entries are distinct
\* variables, so the order of the range does not show in the result
RECURSIVE SetAll(_, _, _, _)
SetAll(w, e, values, names) ==
    IF names = {} \/ w.panicked
    THEN w
    ELSE LET k == CHOOSE k \in names : TRUE
         IN  SetAll(Set(w, e, k, values[k]), e, values, names \ {k})

\* te.Cleanup(): once, unset what did not exist, put back what was replaced, and
\* unlock envLock; unlocking a mutex that is not locked is a fatal error
Cleanup(w, e) ==
    IF w.te.cleanupOnce
    THEN w
    ELSE LET unsetDone == [n \in EnvNames |->
                              IF w.te.unset[n] THEN NotSet ELSE w.environ[n]]
         IN  [w EXCEPT !.te.cleanupOnce = TRUE,
                       !.te.unset = [n \in EnvNames |-> FALSE],
                       !.te.unsetNil = TRUE,
                       !.te.replaced = [n \in EnvNames |-> NotSet],
                       !.te.replacedNil = TRUE,
                       !.environ = [n \in EnvNames |->
                                       IF w.te.replaced[n] # NotSet
                                       THEN w.te.replaced[n]
                                       ELSE unsetDone[n]],
                       !.fatal = ~w.envLock,
                       !.envLock = FALSE,
                       !.acquirer = 0]

\* how a call ended
Outcome(w) ==
    IF w.fatal THEN "fatal" ELSE IF w.panicked THEN "panic" ELSE "ok"

\* the call on TestEnv e left the process and te as in w, having set the
\* variables in names
Returns(w, e, fn, names) ==
    /\ environ' = w.environ
    /\ envLock' = w.envLock
    /\ acquirer' = w.acquirer
    /\ te' = [te EXCEPT ![e] = w.te]
    /\ fatal' = w.fatal
    /\ elast' = [fn |-> fn, e |-> e, outcome |-> Outcome(w)]
    /\ sets' = [sets EXCEPT ![e] =
                   [n \in EnvNames |->
                       IF n \in names /\ ~w.panicked THEN @[n] + 1 ELSE @[n]]]
    /\ before' = [before EXCEPT ![e] =
                     [n \in EnvNames |->
                         IF n \in names /\ ~w.panicked /\ sets[e][n] = 0
                         THEN environ[n]
                         ELSE @[n]]]

\* a test calls te.Set(name, value)
SetCall(e, name, value) ==
    /\ ~fatal
    /\ InitReturns(e)
    /\ sets[e][name] < MaxSets
    /\ Returns(Set(World(e), e, name, value), e, "Set", {name})
    /\ UNCHANGED TestEnvUnused

\* a test calls te.SetAll(vars)
SetAllCall(e, values) ==
    /\ ~fatal
    /\ DOMAIN values = {} \/ InitReturns(e)
    /\ \A n \in DOMAIN values : sets[e][n] < MaxSets
    /\ Returns(SetAll(World(e), e, values, DOMAIN values), e, "SetAll", DOMAIN values)
    /\ UNCHANGED TestEnvUnused

\* a test calls te.Cleanup()
CleanupCall(e) ==
    /\ ~fatal
    /\ Returns(Cleanup(World(e), e), e, "Cleanup", {})
    /\ UNCHANGED TestEnvUnused

\* the maps of variables SetAll is called with
SetAllMaps == UNION {[S -> EnvValues] : S \in SUBSET EnvNames}

\* one TestEnv is used by a test
TestEnvNext ==
    \/ \E name \in EnvNames, value \in EnvValues : SetCall(1, name, value)
    \/ \E values \in SetAllMaps : SetAllCall(1, values)
    \/ CleanupCall(1)

\* several TestEnv values are used by tests that run in parallel
EnvLockNext ==
    \/ \E e \in TestEnvs, name \in EnvNames, value \in EnvValues : SetCall(e, name, value)
    \/ \E e \in TestEnvs, values \in SetAllMaps : SetAllCall(e, values)
    \/ \E e \in TestEnvs : CleanupCall(e)

-----------------------------------------------------------------------------
(* Closing with SafeFailingClose (log.go) *)

\* the names the closers are given, and the errors Close returns
CloserNames == {"file", "body"}

CloseErrs == {NilErr, <<"close error">>, <<"other close error">>}

\* the error of the operation itself: testDummyErr("op failure")
OpErr == <<"op failure">>

\* fmt.Errorf("failed to close %s: %w", name, err)
FailedToClose(name, err) ==
    <<IF name = "file" THEN "failed to close file: %w" ELSE "failed to close body: %w">>
        \o err

\* logger.Errorf("failed to close %s: %v", name, err)
Errorf(name, err) == [format |-> "failed to close %s: %v", name |-> name, err |-> err]

\* a SafeFailingClose that logs every close error
SafeFailingCloseLogsAll(out, name, err) ==
    [closes |-> 1,
     outErr |-> IF err # NilErr /\ out = NilErr THEN FailedToClose(name, err) ELSE out,
     logs   |-> IF err # NilErr THEN <<Errorf(name, err)>> ELSE <<>>]

\* SafeFailingClose(logger, outErr, name, c), err being what c.Close() returns and
\* out the value of *outErr: the Close calls made, *outErr afterwards, and what
\* was logged
SafeFailingClose(out, name, err) ==
    IF err # NilErr /\ out = NilErr
    THEN [closes |-> 1, outErr |-> FailedToClose(name, err), logs |-> <<>>]
    ELSE IF err # NilErr
    THEN [closes |-> 1, outErr |-> out, logs |-> <<Errorf(name, err)>>]
    ELSE [closes |-> 1, outErr |-> out, logs |-> <<>>]

NoClose == [name |-> "", err |-> NilErr, before |-> NilErr]

\* nothing is closed
NoCloses ==
    /\ outErr = NilErr
    /\ logEntries = <<>>
    /\ closes = 0
    /\ lclose = NoClose

\* state SafeFailingClose does not touch
CloseUnused ==
    <<jvars, hvars, tvars, cvars, pvars, svars, avars, evars, kvars, logged, errEvent>>

\* a deferred SafeFailingClose(logger, &err, name, c) runs
SafeFailingCloseCall(name, err) ==
    /\ closes < MaxCloses
    /\ LET r == SafeFailingClose(outErr, name, err)
       IN  /\ closes' = closes + r.closes
           /\ outErr' = r.outErr
           /\ logEntries' = logEntries \o r.logs
    /\ lclose' = [name |-> name, err |-> err, before |-> outErr]
    /\ UNCHANGED CloseUnused

CloseNext == \E name \in CloserNames, err \in CloseErrs : SafeFailingCloseCall(name, err)

(***************************************************************************)
(* The exponent of a key (jwks.go)                                         *)
(***************************************************************************)

\* the bytes an exponent is made of: zero, one, and a byte with its top bit set
ByteValues == {0, 1, 128}

\* a jwksKey, by what base64.RawURLEncoding.DecodeString makes of its E: whether
\* it decodes, and the bytes it decodes to
ExponentKeys ==
    {[decodes |-> d, data |-> b] :
        d \in BOOLEAN,
        b \in UNION {[1..n -> ByteValues] : n \in 0..MaxExponentLen}}

\* make([]byte, n, 8)
ZeroBytes(n) == [i \in 1..n |-> 0]

\* the bytes binary.Read reads: data behind zero bytes when it is shorter than a
\* uint64, data itself otherwise
PaddedBytes(data) ==
    IF Len(data) < uint64Len THEN ZeroBytes(uint64Len - Len(data)) \o data ELSE data

\* binary.Read(reader, binary.BigEndian, &e) for a uint64: the first eight bytes,
\* most significant first
ReadUint64(ebytes) == SubSeq(ebytes, 1, uint64Len)

\* an int of 64 bits is written as its eight bytes in two's complement, most
\* significant first; it is negative when the top bit is set
Negative(int) == int[1] >= 128

\* the int -1
MinusOne == [i \in 1..uint64Len |-> 255]

DecodeErr == <<"illegal base64 data">>

\* eAsInt: int(e) keeps the 64 bits of e
eAsInt(key) ==
    IF ~key.decodes THEN [int |-> MinusOne, err |-> DecodeErr]
    ELSE [int |-> ReadUint64(PaddedBytes(key.data)), err |-> NilErr]

NotCalled == [called |-> FALSE, int |-> ZeroBytes(uint64Len), err |-> NilErr]

\* no exponent is converted
NoExponents ==
    /\ ekey = [decodes |-> TRUE, data |-> <<>>]
    /\ eret = NotCalled

ExponentUnused == <<jvars, hvars, tvars, cvars, pvars, svars, avars, evars, lvars>>

\* the key's eAsInt is called
eAsIntCall ==
    /\ ~eret.called
    /\ eret' = [called |-> TRUE, int |-> eAsInt(ekey).int, err |-> eAsInt(ekey).err]
    /\ UNCHANGED <<ekey, ExponentUnused>>

ExponentNext == eAsIntCall


(***************************************************************************)
(* The durations of requests (NewTwirpMetricsHooks)                        *)
(***************************************************************************)

\* opt.testLatency in seconds: not set, or WithTwirpMetricsStaticTestLatency(1*time.Second)
TestLatencies == {0, 1}

\* Twirp requests go through the hooks while the clock advances
DurationNext ==
    \/ \E r \in Requests, auth \in {<<>>, <<"Bearer", Space, "good">>}, names \in BOOLEAN :
          TwirpRequest(r, TRUE, auth, names)
    \/ \E r \in Requests, resp \in {x \in Responses : x.doc = DocOne} : AuthStage(r, resp)
    \/ \E r \in Requests : MetricsStage(r)
    \/ \E r \in Requests : Dispatch(r)
    \/ \E r \in Requests : Handler(r)
    \/ \E r \in Requests : Failed(r)
    \/ \E r \in Requests : ResponseSent(r)
    \/ \E r \in Requests : Finish(r)
    \/ Tick

-----------------------------------------------------------------------------
(* Specifications *)

\* no permission is checked, nothing is set up, no annotation bag and no TestEnv
\* is in use, nothing is closed or logged, no key exponent is decoded
NoHelpers ==
    NoPermissionChecks /\ NoSetups /\ NoAnnotations /\ NoTestEnvs /\ NoCloses
        /\ NoErrorEvents /\ NoExponents

\* no hooks are combined, no request is made
NoHooks ==
    /\ authHook = "nil"
    /\ metricsHook = [kind |-> "nil", own |-> FALSE, fails |-> FALSE, testLatency |-> 0]
    /\ NoRequests

Init == JInit /\ NoHooks /\ NoValidations /\ NoContexts /\ NoHelpers

Next == JNext

Spec == Init /\ [][Next]_vars

\* The steps of a caller inside getKey. A goroutine that can run is run, so each
\* step is taken if it stays possible; a sync.Mutex hands the lock to a waiter that
\* has waited long (starvation mode), so a caller that can take the lock again and
\* again does take it; and every HTTP fetch is assumed to return.
Fairness ==
    \A c \in Callers :
        /\ SF_vars(Lock(c))
        /\ WF_vars(CheckStale(c))
        /\ WF_vars(\E resp \in Responses : FetchReturn(c, resp))
        /\ WF_vars(FetchFailed(c))
        /\ WF_vars(Install(c))
        /\ WF_vars(Scan(c))

\* getKey while the clock stands still: no step of getKey waits for the clock, and
\* with the TTLs of Init a call finds the cache stale (before the first successful
\* fetch) or fresh (after it)
FairNext ==
    \/ \E c \in Callers, k \in Kids : Call(c, k)
    \/ \E c \in Callers : Lock(c)
    \/ \E c \in Callers : CheckStale(c)
    \/ \E c \in Callers, resp \in Responses : FetchReturn(c, resp)
    \/ \E c \in Callers : FetchFailed(c)
    \/ \E c \in Callers : Install(c)
    \/ \E c \in Callers : Scan(c)
    \/ \E c \in Callers : Return(c)

FairSpec == Init /\ [][FairNext]_vars /\ Fairness

\* StandardTwirpHooks: NewJWKS with the default ttl, and CombineMetricsAndAuthHooks
\* on the hooks of the application
HInit ==
    /\ NewJWKS
    /\ ttl = defaultJwksTTL
    /\ authHook \in AuthHooks
    /\ metricsHook \in MetricsHooks
    /\ NoRequests
    /\ NoValidations
    /\ NoContexts
    /\ NoHelpers

HookSpec == HInit /\ [][HNext]_vars

\* NewJWKS with WithJwksTTL of one tick, and callers of ValidateToken
VInit == NewJWKS /\ ttl = 1 /\ NoHooks /\ NoValidations /\ NoContexts /\ NoHelpers

ValidateSpec == VInit /\ [][VNext]_vars

\* NewJWKS with the default ttl, and HTTPMiddleware around a handler
HeaderInit ==
    /\ NewJWKS
    /\ ttl = defaultJwksTTL
    /\ NoHooks
    /\ NoValidations
    /\ NoContexts
    /\ NoHelpers

HeaderSpec == HeaderInit /\ [][HeaderNext]_vars

\* context.Background()
ContextInit ==
    /\ NewJWKS
    /\ ttl = defaultJwksTTL
    /\ NoHooks
    /\ NoValidations
    /\ NoContexts
    /\ NoHelpers

ContextSpec == ContextInit /\ [][ContextNext]_vars

\* the claims of a validated token, with any PermissionsClaim
PermissionInit ==
    /\ NewJWKS
    /\ ttl = defaultJwksTTL
    /\ NoHooks
    /\ NoValidations
    /\ NoContexts
    /\ permissions \in PermissionsClaims
    /\ checked = NoCheck
    /\ NoSetups
    /\ NoAnnotations
    /\ NoTestEnvs
    /\ NoCloses
    /\ NoErrorEvents
    /\ NoExponents

PermissionSpec == PermissionInit /\ [][PermissionNext]_vars

\* a Registerer in which some of the names may be taken already, and no call made
SetupInit ==
    /\ NewJWKS
    /\ ttl = defaultJwksTTL
    /\ NoHooks
    /\ NoValidations
    /\ NoContexts
    /\ NoPermissionChecks
    /\ registered \in SUBSET {MetricNames[n] : n \in DOMAIN MetricNames}
    /\ setups = <<>>
    /\ hookErr = NoHookErr
    /\ NoAnnotations
    /\ NoTestEnvs
    /\ NoCloses
    /\ NoErrorEvents
    /\ NoExponents

SetupSpec == SetupInit /\ [][SetupNext]_vars

\* NewJWKS with the default ttl, and HTTPMiddleware around a handler, for requests
\* with any kind of token
MiddlewareInit ==
    /\ NewJWKS
    /\ ttl = defaultJwksTTL
    /\ NoHooks
    /\ NoValidations
    /\ NoContexts
    /\ NoHelpers

MiddlewareSpec == MiddlewareInit /\ [][MiddlewareNext]_vars

\* ContextWithAnnotations on a context with or without a segment
AnnotationInit ==
    /\ NewJWKS
    /\ ttl = defaultJwksTTL
    /\ NoHooks
    /\ NoValidations
    /\ NoContexts
    /\ NoPermissionChecks
    /\ NoSetups
    /\ NoTestEnvs
    /\ NoCloses
    /\ NoErrorEvents
    /\ NoExponents
    /\ ContextWithAnnotations

AnnotationSpec == AnnotationInit /\ [][AnnotationNext]_vars

\* one bag, with or without a segment, shared by the threads
AccessorSpec == AnnotationInit /\ [][AccessorNext]_vars

\* a process with any environment, and TestEnv values not used yet
TestEnvInit ==
    /\ NewJWKS
    /\ ttl = defaultJwksTTL
    /\ NoHooks
    /\ NoValidations
    /\ NoContexts
    /\ NoPermissionChecks
    /\ NoSetups
    /\ NoAnnotations
    /\ NoCloses
    /\ NoErrorEvents
    /\ NoExponents
    /\ environ \in [EnvNames -> EnvValues \cup {NotSet}]
    /\ envLock = FALSE
    /\ te = [e \in TestEnvs |-> EmptyTestEnv]
    /\ fatal = FALSE
    /\ acquirer = 0
    /\ sets = [e \in TestEnvs |-> [n \in EnvNames |-> 0]]
    /\ before = [e \in TestEnvs |-> [n \in EnvNames |-> NotSet]]
    /\ elast = NoEnvCall

TestEnvSpec == TestEnvInit /\ [][TestEnvNext]_vars

\* a process in which one of the variables exists and the other does not
EnvLockInit ==
    /\ TestEnvInit
    /\ environ = [n \in EnvNames |-> IF n = "A" THEN "v1" ELSE NotSet]

EnvLockSpec == EnvLockInit /\ [][EnvLockNext]_vars

\* nothing is in use but the helpers named
AtRest ==
    /\ NewJWKS
    /\ ttl = defaultJwksTTL
    /\ NoHooks
    /\ NoValidations
    /\ NoContexts

\* a function that has its closes deferred returns, with or without an error
CloseInit ==
    /\ AtRest
    /\ NoPermissionChecks
    /\ NoSetups
    /\ NoAnnotations
    /\ NoTestEnvs
    /\ NoErrorEvents
    /\ NoExponents
    /\ outErr \in {NilErr, OpErr}
    /\ logEntries = <<>>
    /\ closes = 0
    /\ lclose = NoClose

CloseSpec == CloseInit /\ [][CloseNext]_vars

ExponentInit ==
    /\ AtRest
    /\ NoPermissionChecks
    /\ NoSetups
    /\ NoAnnotations
    /\ NoTestEnvs
    /\ NoCloses
    /\ NoErrorEvents
    /\ ekey \in ExponentKeys
    /\ eret = NotCalled

ExponentSpec == ExponentInit /\ [][ExponentNext]_vars

\* the hooks of NewTwirpMetricsHooks, with or without a static test latency, alone
\* or combined with the auth hook
DurationInit ==
    /\ NewJWKS
    /\ ttl = defaultJwksTTL
    /\ authHook \in AuthHooks
    /\ metricsHook \in {[PrometheusHooks EXCEPT !.testLatency = l] : l \in TestLatencies}
    /\ NoRequests
    /\ NoValidations
    /\ NoContexts
    /\ NoHelpers

DurationSpec == DurationInit /\ [][DurationNext]_vars

-----------------------------------------------------------------------------
(* Properties of the key-set cache, under Spec *)

\* callers with an HTTP fetch begun and its result not yet handled
InFlight == {c \in Callers : pc[c] \in {"fetch", "fetched"}}

C7_NoFetchWithinTTL ==
    /\ (~jwks.nil /\ now <= jwksStaleAfter) =>
           (fetches.started = fetches.atLastOk /\ fetches.last = "ok")
    /\ (fetches.firstOk = 1 /\ now <= fetches.firstUntil) => fetches.started = 1

\* C7 witness: three calls made, one fetch, still inside the window, with one call
\* that found its key and one that did not.
C7_Witness ==
    /\ calls >= 3
    /\ fetches.started = 1
    /\ ~jwks.nil /\ now <= jwksStaleAfter
    /\ \E c, d \in Callers :
          /\ pc[c] = "done" /\ ret[c].err = ""
          /\ pc[d] = "done" /\ ret[d].err = "key not found"

\* the step in which caller c's getKey returns because fetchJWKS failed
FailedReturn(c) == pc[c] = "fetched" /\ res.err # "" /\ pc'[c] = "done"

\* C8: when the refetch fails getKey returns an error and no key, and leaves jwks
\* and jwksStaleAfter as they were; and as long as the latest fetch is a failed one
\* the staleness check of every call starts a fetch.
C8_FailedFetchLeavesCache ==
    [][ /\ \A c \in Callers : FailedReturn(c) =>
              /\ ret'[c].err = "failed to fetch jwks"
              /\ ret'[c].key = NoKey
              /\ jwks' = jwks
              /\ jwksStaleAfter' = jwksStaleAfter
        /\ \A c \in Callers :
              (pc[c] = "check" /\ pc'[c] # "check" /\ fetches.last = "err")
                  => pc'[c] = "fetch" ]_vars

\* C8 witness: a seeded cache, a failed refetch, and a later call that fetched again
\* and failed again.
C8_Witness ==
    /\ ~jwks.nil
    /\ fetches.failed >= 2
    /\ fetches.last = "err"
    /\ \E c \in Callers : pc[c] = "done" /\ ret[c].err = "failed to fetch jwks"

\* the cached key set is seeded and holds the key id caller c asks for
CachedHas(c) == ~jwks.nil /\ findKey(jwks.Keys, kid[c]).err = ""

\* C9 as claimed: a call whose refetch fails still resolves a key id held by the
\* previously cached key set.
C9_Original ==
    [][ \A c \in Callers : (FailedReturn(c) /\ CachedHas(c)) =>
            ret'[c] = findKey(jwks.Keys, kid[c]) ]_vars

\* C9 amended: a call whose refetch fails returns the fetch error and no key, also
\* for a key id held by the previously cached key set; that set stays in the cache.
C9_FailedRefreshReturnsError ==
    [][ \A c \in Callers : (FailedReturn(c) /\ CachedHas(c)) =>
            /\ ret'[c].key = NoKey
            /\ ret'[c].err = "failed to fetch jwks"
            /\ ~jwks'.nil /\ jwks'.Keys = jwks.Keys ]_vars

\* C9 witness: a call returned the fetch error for a key id the cache holds.
C9_Witness ==
    \E c \in Callers :
        /\ pc[c] = "done"
        /\ ret[c].err = "failed to fetch jwks"
        /\ fetches.last = "err"
        /\ CachedHas(c)

WholeSets == {[nil |-> FALSE, Keys |-> d] : d \in Docs}

\* C11: the cached key set is nil or one whole document of a successful fetch, never a
\* part of one or a mixture of two; it changes only in the holder of the cache lock,
\* to the decoded result of that holder's successful fetch, in one step; every key
\* scan is made by the lock holder on such a whole set; and a fetch that failed,
\* also one whose body broke off in decoding, yields no key set and installs nothing.
C11_WholesaleReplacement ==
    /\ [](/\ jwks = NilJwks \/ jwks \in WholeSets
          /\ \A c \in Callers :
                /\ pc[c] = "scan" => (m = c /\ jwks \in WholeSets)
                /\ (pc[c] = "fetched" /\ res.err # "") => res.res = NilJwks
                /\ (pc[c] = "fetched" /\ res.err = "") => res.res \in WholeSets)
    /\ [][jwks' # jwks =>
            \E c \in Callers :
                /\ m = c /\ m' = c
                /\ pc[c] = "fetched" /\ pc'[c] = "scan"
                /\ res.err = ""
                /\ jwks' = res.res]_vars
    /\ [][\A c \in Callers :
            (pc[c] = "fetched" /\ res.err # "" /\ pc'[c] # "fetched") =>
                (jwks' = jwks /\ jwksStaleAfter' = jwksStaleAfter)]_vars
    /\ [][\A c \in Callers :
            (pc[c] = "scan" /\ pc'[c] = "done") =>
                \E w \in WholeSets : ret'[c] = findKey(w.Keys, kid[c])]_vars

\* C11 witness: a second successful fetch has replaced the key set of the first, and a
\* caller scans the new set while another waits for the lock.
C11_Witness ==
    \E c, d \in Callers :
        /\ pc[c] = "scan" /\ pc[d] = "lock"
        /\ fetches.firstOk >= 1
        /\ fetches.atLastOk > fetches.firstOk
        /\ jwks = [nil |-> FALSE, Keys |-> DocTwo]

-----------------------------------------------------------------------------
(* Properties of ValidateToken, under ValidateSpec *)

\* C12 as claimed: a fetch in flight when its caller cancels is aborted, so the
\* call ends with the fetch error and the cache as it was.
C12_Original ==
    \A c \in Callers : cancelled[c] =>
        \/ pc[c] = "fetch"
        \/ pc[c] = "fetched" /\ res.err # ""
        \/ pc[c] \in {"done", "vdone"} /\ ret[c].err = "failed to fetch jwks"

\* C12 amended: ValidateToken and getKey take no deadline or cancellation signal and
\* fetchJWKS sends its request without one, so a cancellation by the caller does not
\* reach a fetch in flight: the fetch ends with what the HTTP exchange gives, and
\* when that is a key set it is installed and jwksStaleAfter is advanced as for
\* any other caller; the cache stays as it was only when the fetch itself fails.
C12_CancellationIgnored ==
    /\ [](\A c \in Callers :
            pc[c] = "fetched" => \E resp \in Responses : res = fetchJWKS(resp))
    /\ [][\A c \in Callers :
            (cancelled[c] /\ pc[c] = "fetched" /\ pc'[c] # "fetched") =>
                IF res.err = ""
                THEN /\ pc'[c] = "scan"
                     /\ jwks' = res.res
                     /\ jwksStaleAfter' = NewStaleAfter(now, ttl)
                ELSE /\ pc'[c] = "done"
                     /\ ret'[c].err = "failed to fetch jwks"
                     /\ jwks' = jwks
                     /\ jwksStaleAfter' = jwksStaleAfter]_vars
    /\ [][\A c \in Callers :
            (cancelled[c] /\ pc[c] = "fetch") => pc'[c] \in {"fetch", "fetched"}]_vars

\* C12 witness: the key set of a fetch that was in flight when its caller cancelled
\* is in the cache and the cancelled call scans it.
C12_Witness ==
    \E c \in Callers :
        /\ cancelled[c]
        /\ pc[c] = "scan"
        /\ fetches.last = "ok"
        /\ jwks \in WholeSets
        /\ jwksStaleAfter = NewStaleAfter(now, ttl)

\* the caller is inside j.getKey, or back from it with its result
InGetKey(c) == pc[c] \in {"lock", "check", "fetch", "fetched", "scan", "done"}

\* the token of the call the caller begins is not RSA-signed or not of the type asked
WrongAlgOrType(c) ==
    \/ ~IsRSA(TokenOf(vtok'[c]).alg)
    \/ TokenOf(vtok'[c]).ntt # vtype'[c]

\* C13: a token that is not RSA-signed, or whose ntt is not the requested type, is
\* rejected without key resolution: the call ends at once with an error and empty
\* claims, the cache lock, the cache and the count of fetches are as before, and
\* no call inside getKey has such a token.
C13_RejectedBeforeKeyResolution ==
    /\ [](\A c \in Callers : InGetKey(c) =>
             /\ IsRSA(TokenOf(vtok[c]).alg)
             /\ TokenOf(vtok[c]).ntt = vtype[c])
    /\ [][\A c \in Callers :
            (pc[c] = "idle" /\ pc'[c] # "idle" /\ WrongAlgOrType(c)) =>
                /\ pc'[c] = "vdone"
                /\ vret'[c].err # NilErr
                /\ vret'[c].claims = NoClaims
                /\ UNCHANGED <<m, jwks, jwksStaleAfter, fetches, res, seen, ret, kid>>]_vars

\* C13 witness: an RSA-signed token of the other type has been rejected while
\* another caller holds the cache lock for the first fetch.
C13_Witness ==
    \E c, d \in Callers :
        /\ pc[c] = "vdone"
        /\ IsRSA(TokenOf(vtok[c]).alg)
        /\ TokenOf(vtok[c]).ntt # vtype[c]
        /\ vret[c] = ParseFailed("unexpected token type")
        /\ pc[d] = "fetch" /\ m = d
        /\ fetches.started = 1

\* no key of the cached set has the kid the caller asks for
NoKeyWithKid(c) == \A i \in 1..Len(jwks.Keys) : jwks.Keys[i].Kid # kid[c]

\* C14: when the kid of a token that passed the signing-method and token-type
\* checks is the kid of no key in the set the cache holds after the freshness check,
\* that is the set the lock holder scans, getKey returns no key and ValidateToken
\* returns the error "failed to parse token: unknown key id" with empty claims.
C14_UnknownKeyRejected ==
    /\ [][\A c \in Callers :
            (pc[c] = "scan" /\ pc'[c] = "done" /\ NoKeyWithKid(c)) =>
                ret'[c] = [key |-> NoKey, err |-> "key not found"]]_vars
    /\ [](\A c \in Callers :
            (pc[c] = "vdone" /\ ret[c].err = "key not found") =>
                /\ vret[c] = ParseFailed("unknown key id")
                /\ vret[c].claims = NoClaims
                /\ vret[c].err # NilErr)

\* C14 witness: a token with a kid of no served key was rejected after the scan of
\* a fetched key set.
C14_Witness ==
    \E c \in Callers :
        /\ pc[c] = "vdone"
        /\ vtok[c] = <<"otherkid">>
        /\ jwks \in WholeSets
        /\ ret[c].err = "key not found"
        /\ vret[c] = ParseFailed("unknown key id")

\* the key is one of a key set the endpoint serves
ServedKey(key) == \E w \in WholeSets : \E i \in 1..Len(w.Keys) : w.Keys[i] = key

\* C15: ValidateToken returns a nil error only when the token parsed, is RSA-signed,
\* has the requested type, getKey resolved its kid to a key of the key set, that
\* key has the token's algorithm and verifies its signature, and its temporal
\* claims are valid; the claims returned then are the token's. Whenever it returns
\* an error the claims returned are the zero value, whatever the token decoded to.
C15_ClaimsOnlyWhenVerified ==
    \A c \in Callers : pc[c] = "vdone" =>
        LET t == TokenOf(vtok[c])
        IN /\ vret[c].err = NilErr =>
                 /\ t.wellFormed
                 /\ IsRSA(t.alg)
                 /\ t.ntt = vtype[c]
                 /\ t.kidIs = "string"
                 /\ ret[c].err = ""
                 /\ ret[c].key.Kid = t.kid
                 /\ ServedKey(ret[c].key)
                 /\ ret[c].key.Alg = t.alg
                 /\ ret[c].key.N = t.signedBy
                 /\ t.timely
                 /\ vret[c].claims = ClaimsOf(t)
           /\ vret[c].err # NilErr => vret[c].claims = NoClaims
           /\ ~vret[c].panic

\* C15 witness: one call returned the claims of the valid token, and a call with a
\* token signed by another key returned an error and no claims.
C15_Witness ==
    \E c, d \in Callers :
        /\ pc[c] = "vdone"
        /\ vtok[c] = <<"forged">>
        /\ ret[c].err = ""
        /\ vret[c] = ParseFailed("crypto/rsa: verification error")
        /\ pc[d] = "vdone"
        /\ vret[d].err = NilErr
        /\ vret[d].claims = ClaimsOf(TokenOf(<<"good">>))

\* C16 as claimed: no call of ValidateToken panics, every one returns.
C16_NeverPanics ==
    \A c \in Callers : pc[c] # "panicked" /\ ~vret[c].panic

-----------------------------------------------------------------------------
(* Properties of the hook pipeline, under HookSpec *)

\* the combined RequestRouted hook of request r has returned
Routed(r) == hist[r].via = "twirp" /\ stage[r] \in {"routed", "handler", "failed", "sent"}

\* the organisation label after the auth stage of request r
AuthOrg(r) ==
    IF hist[r].authAi.set /\ hist[r].authAi.Err = NilErr
    THEN hist[r].authAi.Ac.Claims.Org
    ELSE ""

\* the step in which the metrics half of request r's RequestRouted hook runs
MetricsStep(r) == stage[r] = "metrics" /\ stage'[r] = "routed"

\* C1: with a metrics.RequestRouted hook set, every invocation of the combined hook
\* invokes it exactly once, also when auth.RequestRouted returned an error; with the
\* hooks of NewTwirpMetricsHooks and a request that has its service and method
\* names, that one invocation adds exactly 1 to rpc_requests_total of the request's
\* organisation (the empty one after an authentication failure) and to no other.
C1_MetricsAlwaysRouted ==
    /\ [](\A r \in Requests :
            /\ stage[r] \in {"auth", "metrics"} => hist[r].metricsCalls = 0
            /\ (Routed(r) /\ metricsHook.kind # "nil") => hist[r].metricsCalls = 1
            /\ (Routed(r) /\ metricsHook.kind = "prometheus" /\ rctx[r].names) =>
                   hist[r].incs = <<AuthOrg(r)>>
            /\ (Routed(r) /\ hist[r].authErr # NilErr /\ hist[r].incs # <<>>) =>
                   hist[r].incs = <<"">>)
    /\ [][\A r \in Requests :
            (MetricsStep(r) /\ metricsHook.kind = "prometheus" /\ rctx[r].names) =>
                requestsReceived' =
                    [requestsReceived EXCEPT ![contextOrg(rctx[r])] = @ + 1]]_vars

\* C1 witness: a request whose authentication failed went through the combined hook
\* and was counted once, under the empty organisation.
C1_Witness ==
    \E r \in Requests :
        /\ Routed(r)
        /\ hist[r].authErr # NilErr
        /\ hist[r].metricsCalls = 1
        /\ hist[r].incs = <<"">>
        /\ requestsReceived[""] >= 1

\* C2: the combined hook returns nil exactly when auth.RequestRouted returned nil,
\* and otherwise an error that wraps the auth error; an error of the metrics hook is
\* never in what is returned, and the request reaches its handler exactly when
\* auth returned nil.
C2_ReturnsAuthError ==
    \A r \in Requests : Routed(r) =>
        /\ rerr[r] = NilErr <=> hist[r].authErr = NilErr
        /\ hist[r].authErr # NilErr =>
               /\ rerr[r] # hist[r].authErr
               /\ Tail(rerr[r]) = hist[r].authErr
               /\ Is(rerr[r], hist[r].authErr)
        /\ hist[r].metricsErr # NilErr => ~Is(rerr[r], hist[r].metricsErr)
        /\ stage[r] = "handler" => hist[r].authErr = NilErr
        /\ stage[r] = "failed" => hist[r].authErr # NilErr
        /\ hist[r].handlerRan <=> (stage[r] = "sent" /\ hist[r].authErr = NilErr)

\* C2 witness: the metrics hook failed for two requests; the one whose
\* authentication failed got the wrapped auth error, the other reached its handler.
C2_Witness ==
    \E r, q \in Requests :
        /\ Routed(r) /\ hist[r].metricsErr # NilErr
        /\ hist[r].authErr # NilErr /\ rerr[r] = Wrap(hist[r].authErr)
        /\ Routed(q) /\ hist[q].metricsErr # NilErr
        /\ hist[q].authErr = NilErr /\ rerr[q] = NilErr /\ stage[q] = "handler"

\* C3 as claimed: whatever the metrics hook returns, the context the combined hook
\* returns carries the authentication result that auth.RequestRouted produced.
C3_AuthContextKept ==
    \A r \in Requests : Routed(r) => rctx[r].ai = hist[r].authAi

\* the request cannot be authenticated whatever the key set: no headers in the
\* context, no bearer token, or a token no key validates
CannotAuthenticate(headers) ==
    \/ ~headers.present
    \/ getAuthToken(headers.Authorization).err # NilErr
    \/ LET t == TokenOf(getAuthToken(headers.Authorization).token)
       IN \/ ~t.wellFormed \/ ~IsRSA(t.alg) \/ t.ntt # TokenTypeAccessToken \/ ~t.timely
          \/ \A d \in Docs : \A i \in 1..Len(d) : d[i].N # t.signedBy

\* the authentication of request r failed
AuthFailed(r) ==
    /\ hist[r].via = "twirp"
    /\ authHook = "navigaid"
    /\ hist[r].authDone
    /\ (CannotAuthenticate(hist[r].headers) \/ hist[r].authErr # NilErr)

\* C4 as claimed: after an authentication failure the failure is recorded in the
\* AuthContext and the application handler still runs.
C4_Original ==
    \A r \in Requests : (AuthFailed(r) /\ stage[r] = "sent") =>
        /\ hist[r].authAi.set /\ hist[r].authAi.Err # NilErr
        /\ hist[r].handlerRan

\* C4 amended: an authentication failure rejects the request: TwirpAuthenticate
\* returns the Unauthenticated error and the context as it was, with nothing
\* recorded in it, the combined hook returns that error wrapped, and the handler
\* does not run.
C4_AuthFailureRejects ==
    \A r \in Requests : AuthFailed(r) =>
        /\ hist[r].authErr = Unauthenticated
        /\ ~hist[r].authAi.set
        /\ Routed(r) => (rerr[r] = Wrap(Unauthenticated) /\ Is(rerr[r], Unauthenticated))
        /\ stage[r] # "handler"
        /\ ~hist[r].handlerRan

\* C4 witness: a request with a bearer token that failed validation was answered
\* without its handler having run.
C4_Witness ==
    \E r \in Requests :
        /\ AuthFailed(r)
        /\ getAuthToken(hist[r].headers.Authorization).err = NilErr
        /\ stage[r] = "sent"
        /\ ~hist[r].handlerRan

\* request r came through HTTPMiddleware without an Authorization header
HTTPNoHeader(r) == hist[r].via = "http" /\ hist[r].headers.Authorization = <<>>

\* C5: a request without an Authorization header is never failed by
\* HTTPMiddleware: it goes on to the handler, where GetAuth returns ErrNoToken
\* and the empty AuthInfo.
C5_NoHeaderReachesHandler ==
    \A r \in Requests : HTTPNoHeader(r) =>
        /\ stage[r] \in {"middleware", "handler", "sent"}
        /\ hist[r].authDone <=> stage[r] \in {"handler", "sent"}
        /\ hist[r].authDone =>
               GetAuth(rctx[r]) = [info |-> NoAuthInfo, err |-> ErrNoToken]
        /\ stage[r] = "sent" =>
               /\ hist[r].handlerRan
               /\ Is(hist[r].got.err, ErrNoToken)
               /\ hist[r].got.info = NoAuthInfo

\* C5 witness: the handler of such a request ran and got ErrNoToken.
C5_Witness ==
    \E r \in Requests :
        /\ HTTPNoHeader(r)
        /\ stage[r] = "sent"
        /\ hist[r].handlerRan
        /\ hist[r].got = [info |-> NoAuthInfo, err |-> ErrNoToken]

-----------------------------------------------------------------------------
(* Properties of GetAuth and SetAuth, under ContextSpec *)

\* the error GetAuth returns is of the kind ValidateToken returns
IsValidationErr(err) == err # NilErr /\ Head(err) = "failed to parse token"

\* C17: GetAuth on a context gives one of three results. Without a value of SetAuth
\* in the context or an ancestor: the empty AuthInfo and an error that neither
\* matches ErrNoToken nor is a validation error. With a stored non-nil error: that
\* error and the empty AuthInfo, whatever AuthInfo was stored with it. With a stored
\* nil error: the stored AuthInfo and nil. A non-empty AuthInfo never comes with a
\* non-nil error.
C17_ThreeStates ==
    /\ \A n \in 1..Len(ctxs) :
          LET v == Value(ctxs, n)
              g == GetAuthAt(ctxs, n)
          IN /\ ~v.set =>
                   /\ g.info = NoAuthInfo
                   /\ g.err # NilErr
                   /\ ~Is(g.err, ErrNoToken)
                   /\ ~IsValidationErr(g.err)
             /\ (v.set /\ v.Err # NilErr) => g = [info |-> NoAuthInfo, err |-> v.Err]
             /\ (v.set /\ v.Err = NilErr) => g = [info |-> v.Ac, err |-> NilErr]
             /\ ~(g.info # NoAuthInfo /\ g.err # NilErr)
    /\ got.n # 0 =>
          /\ got.r = GetAuthAt(ctxs, got.n)
          /\ ~(got.r.info # NoAuthInfo /\ got.r.err # NilErr)

\* C17 witness: GetAuth was called on a context in which SetAuth stored a non-empty
\* AuthInfo together with an error, and returned the error alone.
C17_Witness ==
    /\ got.n # 0
    /\ ctxs[got.n].own.set
    /\ ctxs[got.n].own.Ac = SomeAuthInfo
    /\ ctxs[got.n].own.Err = ErrNoToken
    /\ got.r = [info |-> NoAuthInfo, err |-> ErrNoToken]

\* what GetAuth returns for the value SetAuth stored
Stored(own) ==
    IF own.Err # NilErr
    THEN [info |-> NoAuthInfo, err |-> own.Err]
    ELSE [info |-> own.Ac, err |-> NilErr]

\* C18: a call of SetAuth, like any other derivation, adds one context and leaves
\* every context there was as it was, so GetAuth on each of them, the argument
\* included, returns what it returned before; GetAuth on a context made by SetAuth
\* returns what that call stored, whatever its parent or its siblings hold; and
\* GetAuth on a context derived otherwise returns what it returns on the parent.
C18_SetAuthDerives ==
    /\ [][ctxs' # ctxs =>
            /\ Len(ctxs') = Len(ctxs) + 1
            /\ \A n \in 1..Len(ctxs) :
                  /\ ctxs'[n] = ctxs[n]
                  /\ GetAuthAt(ctxs', n) = GetAuthAt(ctxs, n)]_vars
    /\ [](\A n \in 2..Len(ctxs) :
            /\ ctxs[n].parent \in 1..(n - 1)
            /\ IF ctxs[n].own.set
               THEN GetAuthAt(ctxs, n) = Stored(ctxs[n].own)
               ELSE GetAuthAt(ctxs, n) = GetAuthAt(ctxs, ctxs[n].parent))

\* C18 witness: two contexts made by SetAuth from the same parent hold different
\* results, a context derived from the first returns the first's result, and the
\* parent still has none.
C18_Witness ==
    \E p, a, b, d \in 1..Len(ctxs) :
        /\ a # b
        /\ ctxs[a].parent = p /\ ctxs[a].own.set
        /\ ctxs[b].parent = p /\ ctxs[b].own.set
        /\ ctxs[d].parent = a /\ ~ctxs[d].own.set
        /\ GetAuthAt(ctxs, a) = [info |-> SomeAuthInfo, err |-> NilErr]
        /\ GetAuthAt(ctxs, b) = [info |-> NoAuthInfo, err |-> ErrNoToken]
        /\ GetAuthAt(ctxs, d) = GetAuthAt(ctxs, a)
        /\ ~Value(ctxs, p).set

-----------------------------------------------------------------------------
(* Properties of the Authorization header, under HeaderSpec *)

\* h is a scheme that is "bearer" in some spelling, a space, and something after it
HasBearerToken(h) ==
    \E i \in 1..Len(h) :
        /\ h[i] = Space
        /\ \A j \in 1..(i - 1) : h[j] # Space
        /\ i < Len(h)
        /\ [j \in 1..(i - 1) |-> ToLower(h[j])] = <<"bearer">>

\* what follows the first space of h
AfterFirstSpace(h) ==
    LET i == CHOOSE k \in 1..Len(h) : h[k] = Space /\ \A j \in 1..(k - 1) : h[j] # Space
    IN SubSeq(h, i + 1, Len(h))

\* request r came through HTTPMiddleware and was handed on
ThroughMiddleware(r) == hist[r].via = "http" /\ hist[r].authDone

\* C19: the error HTTPMiddleware records matches ErrNoToken exactly when the
\* Authorization header is missing or empty, has nothing after the scheme, or has a
\* scheme other than bearer; when a bearer token is there and fails validation the
\* recorded error is a validation error that does not match ErrNoToken; and that
\* is what GetAuth gives the handler.
C19_NoTokenIsDistinct ==
    \A r \in Requests : ThroughMiddleware(r) =>
        LET h == hist[r].headers.Authorization
            g == GetAuth(rctx[r])
        IN /\ Is(g.err, ErrNoToken) <=> ~HasBearerToken(h)
           /\ ~HasBearerToken(h) => g = [info |-> NoAuthInfo, err |-> ErrNoToken]
           /\ (HasBearerToken(h) /\ g.err # NilErr) =>
                  /\ IsValidationErr(g.err)
                  /\ ~Is(g.err, ErrNoToken)
                  /\ g.info = NoAuthInfo
           /\ hist[r].handlerRan => hist[r].got = g

\* C19 witness: the handler of a request with a bearer token that failed validation
\* got an error that does not match ErrNoToken.
C19_Witness ==
    \E r \in Requests :
        /\ ThroughMiddleware(r)
        /\ HasBearerToken(hist[r].headers.Authorization)
        /\ hist[r].handlerRan
        /\ hist[r].got.err # NilErr
        /\ ~Is(hist[r].got.err, ErrNoToken)

\* C20: for the Authorization value h of any request, getAuthToken returns a token
\* exactly when h has a first space with something after it and, before it,
\* "bearer" in any spelling of case; the token is then all that follows the first
\* space, never empty; otherwise it returns ErrNoToken and no token. The token of
\* an authenticated request is that of getAuthToken.
C20_BearerTokenExtraction ==
    \A r \in Requests : hist[r].via = "http" =>
        LET h == hist[r].headers.Authorization
            a == getAuthToken(h)
        IN /\ a.err = NilErr <=> HasBearerToken(h)
           /\ a.err = NilErr => (a.token = AfterFirstSpace(h) /\ a.token # <<>>)
           /\ a.err # NilErr => (a.err = ErrNoToken /\ a.token = <<>>)
           /\ (hist[r].authDone /\ GetAuth(rctx[r]).err = NilErr) =>
                  GetAuth(rctx[r]).info.AccessToken = AfterFirstSpace(h)

\* C20 witness: a request whose token has a space in it went through the
\* middleware with that token taken from the header.
C20_Witness ==
    \E r \in Requests :
        LET a == getAuthToken(hist[r].headers.Authorization)
        IN /\ ThroughMiddleware(r)
           /\ a.err = NilErr
           /\ Len(a.token) >= 2
           /\ \E k \in 1..Len(a.token) : a.token[k] = Space

-----------------------------------------------------------------------------
(* Properties of the permission checks, under PermissionSpec *)

\* the elements of a list
Listed(list) == {list[i] : i \in DOMAIN list}

\* the permissions the claims list for a unit
ListedForUnit(unit) ==
    UNION {Listed(permissions.Units[u]) : u \in DOMAIN permissions.Units \cap {unit}}

\* C21: HasPermissionsInUnit(unit, p1..pn) is true if and only if every pi is in
\* the organisation permissions or in the permissions listed for that unit, and
\* HasPermissionsInOrganisation(p1..pn) if and only if every pi is in the
\* organisation permissions; with no required permission both are true.
C21_FlatSetMembership ==
    /\ checked.fn = "HasPermissionsInUnit" =>
         /\ checked.result =
              (\A i \in DOMAIN checked.required :
                  checked.required[i] \in
                      Listed(permissions.Org) \cup ListedForUnit(checked.unit))
         /\ checked.required = <<>> => checked.result
    /\ checked.fn = "HasPermissionsInOrganisation" =>
         /\ checked.result =
              (\A i \in DOMAIN checked.required :
                  checked.required[i] \in Listed(permissions.Org))
         /\ checked.required = <<>> => checked.result

\* a check in unit mi6 fails for a permission that the claims list for mi5 only,
\* although the other required permission is an organisation permission
C21_Witness ==
    /\ checked.fn = "HasPermissionsInUnit"
    /\ checked.unit = "mi6"
    /\ checked.required = <<"access-building", "read-files">>
    /\ "access-building" \in Listed(permissions.Org)
    /\ "read-files" \in ListedForUnit("mi5")
    /\ "read-files" \notin Listed(permissions.Org) \cup ListedForUnit("mi6")
    /\ ~checked.result

-----------------------------------------------------------------------------
(* Properties of the order of the stages of a request, under HookSpec *)

\* the step in which the application handler of request r runs
HandlerStep(r) == stage[r] = "handler" /\ stage'[r] = "sent"

\* request r is in the pipeline
InPipeline(r) == stage[r] # "none"

\* C22: within one request the authentication stage of RequestRouted completes
\* before the metrics stage counts the routed request and before the handler runs,
\* so the organisation label of that count is the one this request's
\* authentication established, also while another request is in the pipeline and
\* shares the key-set cache and the counters.
C22_AuthBeforeMetricsAndHandler ==
    /\ [](\A r \in Requests :
            hist[r].via = "twirp" =>
                /\ ~hist[r].authDone =>
                       /\ hist[r].metricsCalls = 0
                       /\ hist[r].incs = <<>>
                       /\ ~hist[r].handlerRan
                /\ \A i \in DOMAIN hist[r].incs : hist[r].incs[i] = AuthOrg(r))
    /\ [][\A r \in Requests :
            /\ MetricsStep(r) =>
                   /\ hist[r].authDone
                   /\ ~hist[r].handlerRan
                   /\ \A o \in Orgs :
                          requestsReceived'[o] # requestsReceived[o] =>
                              /\ o = AuthOrg(r)
                              /\ requestsReceived'[o] = requestsReceived[o] + 1
            /\ (HandlerStep(r) /\ hist[r].via = "twirp") =>
                   /\ hist[r].authDone
                   /\ metricsHook.kind # "nil" => hist[r].metricsCalls = 1]_vars

\* C22 witness: two requests are in the pipeline together, both counted: one after
\* its authentication failed, under the empty organisation, the other under the
\* organisation of its claims.
C22_Witness ==
    \E r1, r2 \in Requests :
        /\ r1 # r2
        /\ InPipeline(r1) /\ InPipeline(r2)
        /\ hist[r1].via = "twirp" /\ hist[r2].via = "twirp"
        /\ hist[r1].authDone /\ hist[r1].authErr # NilErr
        /\ hist[r1].incs = <<"">>
        /\ hist[r2].authDone /\ hist[r2].authErr = NilErr
        /\ hist[r2].incs = <<"testorg">>
        /\ requestsReceived[""] >= 1 /\ requestsReceived["testorg"] >= 1

-----------------------------------------------------------------------------
(* Properties of the metrics of a request, under HookSpec *)

\* request r has its service and method names and is served with the hooks of
\* NewTwirpMetricsHooks
Measured(r) == hist[r].via = "twirp" /\ metricsHook.kind = "prometheus" /\ rctx[r].names

\* the step in which the ResponseSent hook of request r runs
ResponseSentStep(r) == stage[r] = "sent" /\ ~hist[r].responded /\ hist'[r].responded

\* C23: a request that passes RequestReceived, RequestRouted and ResponseSent with
\* its service and method names in the context adds exactly one to
\* rpc_requests_total, exactly one to rpc_responses_total and exactly one
\* observation to rpc_duration, each under the organisation of the authenticated
\* claims, or the empty one when authentication failed or is absent.
C23_CountedOnce ==
    /\ [](\A r \in Requests :
            Measured(r) =>
                /\ hist[r].responded =>
                       /\ hist[r].incs = <<AuthOrg(r)>>
                       /\ hist[r].resps = <<<<StatusCode(hist[r].authErr), AuthOrg(r)>>>>
                       /\ hist[r].obs = <<AuthOrg(r)>>
                /\ ~hist[r].responded => hist[r].resps = <<>> /\ hist[r].obs = <<>>
                /\ (hist[r].authErr # NilErr \/ authHook = "nil") => AuthOrg(r) = "")
    /\ [][\A r \in Requests :
            (ResponseSentStep(r) /\ Measured(r)) =>
                /\ responsesSent' =
                       [responsesSent EXCEPT
                           ![<<StatusCode(hist[r].authErr), AuthOrg(r)>>] = @ + 1]
                /\ duration' = [duration EXCEPT ![AuthOrg(r)] = @ + 1]
                /\ requestsReceived' = requestsReceived]_vars

\* C23 witness: two requests were answered, one rejected with 401 and recorded
\* under the empty organisation, the other served with 200 and recorded under the
\* organisation of its claims.
C23_Witness ==
    \E r1, r2 \in Requests :
        /\ Measured(r1) /\ hist[r1].responded
        /\ hist[r1].authErr # NilErr
        /\ hist[r1].resps = <<<<"401", "">>>> /\ hist[r1].obs = <<"">>
        /\ Measured(r2) /\ hist[r2].responded
        /\ hist[r2].handlerRan
        /\ hist[r2].resps = <<<<"200", "testorg">>>> /\ hist[r2].obs = <<"testorg">>
        /\ responsesSent[<<"401", "">>] = 1
        /\ responsesSent[<<"200", "testorg">>] = 1
        /\ duration[""] = 1 /\ duration["testorg"] = 1
        /\ requestsReceived[""] = 1 /\ requestsReceived["testorg"] = 1

-----------------------------------------------------------------------------
(* Properties of the set-up of hooks and applications, under SetupSpec *)

\* one of the three collectors of set-up call s could not be registered
CannotRegister(s) ==
    s.registers /\ \E n \in DOMAIN MetricNames : MetricNames[n] \in s.before

\* C24: if one of the three RPC metrics cannot be registered, NewTwirpMetricsHooks,
\* StandardTwirpHooks and NewStandardApp return an error and neither hooks nor
\* servers; a set-up call fails for no other reason, and no hook reports a
\* registration error while a request is handled.
C24_RegistrationFailsSetupOnly ==
    /\ \A i \in DOMAIN setups :
          /\ CannotRegister(setups[i]) <=> setups[i].err # NilErr
          /\ setups[i].err # NilErr =>
                 /\ Is(setups[i].err, AlreadyRegistered)
                 /\ setups[i].hooks.nil
                 /\ ~setups[i].servers
          /\ (setups[i].err = NilErr /\ setups[i].registers) =>
                 /\ ~setups[i].hooks.nil
                 /\ setups[i].hooks.metrics = "prometheus"
    /\ ~Is(hookErr.err, AlreadyRegistered)
    /\ hookErr.err \in {NilErr, Wrap(Unauthenticated)}
    /\ hookErr.setup # 0 => setups[hookErr.setup].err = NilErr

\* C24 witness: a first application was set up and rejected an unauthenticated
\* request; a second NewStandardApp on the same Registerer, with a service, failed
\* on the registration and made no servers.
C24_Witness ==
    /\ Len(setups) = 2
    /\ setups[1].fn = "NewStandardApp" /\ setups[1].err = NilErr /\ setups[1].servers
    /\ hookErr = [setup |-> 1, err |-> Wrap(Unauthenticated)]
    /\ setups[2].fn = "NewStandardApp" /\ setups[2].registers
    /\ setups[2].err # NilErr
    /\ ~setups[2].servers

-----------------------------------------------------------------------------
(* Properties of HTTPMiddleware, under MiddlewareSpec *)

\* the middleware is done with request r
LeftMiddleware(r) == hist[r].via = "http" /\ stage[r] \notin {"none", "middleware"}

\* the token of request r validated
TokenValidated(r) == hist[r].authAi.set /\ hist[r].authAi.Err = NilErr

\* C25: for every request, whatever the authentication outcome, HTTPMiddleware
\* invokes the next handler exactly once, with a context on which SetAuth was
\* applied exactly once, and invokes annotate if and only if the token validated,
\* before the handler runs.
C25_HandlerAlwaysInvokedOnce ==
    \A r \in Requests :
        LeftMiddleware(r) =>
            /\ stage[r] \in {"handler", "sent"}
            /\ hist[r].setAuth = 1
            /\ rctx[r].ai.set
            /\ Len(hist[r].annotated) = (IF TokenValidated(r) THEN 1 ELSE 0)
            /\ hist[r].handled = (IF stage[r] = "sent" THEN 1 ELSE 0)

-----------------------------------------------------------------------------
(* Properties of the annotation bag, under AnnotationSpec *)

\* the kinds of scalar: a value whose dynamic type is bool or string, an integer
\* type or a float type
IsScalar(value) ==
    value.type \in {"bool", "string"} \cup {"int", "uint", "int64", "uint8"}
                   \cup {"float32", "float64"}

\* the step in which AddAnnotation of thread t, on a standalone bag, looks at the
\* value and stores it or not
AddAnnotationStep(t) ==
    /\ standalone
    /\ tpc[t] = "own" /\ tpc'[t] = "unlockM"
    /\ top[t].fn = "AddAnnotation"

\* C26: in standalone mode AddAnnotation stores the value under the key if and
\* only if the value is a scalar (bool, integer, float or string), and otherwise
\* leaves the annotations unchanged.
C26_ScalarsStored ==
    [][\A t \in Threads :
          AddAnnotationStep(t) =>
              heap'[bag.annotations] =
                  IF IsScalar(top[t].value)
                  THEN Put(heap[bag.annotations], top[t].key, top[t].value)
                  ELSE heap[bag.annotations]]_vars

\* the entries of the map at an address, none for the nil map
EntriesAt(addr) == IF addr = Nil THEN NoEntries ELSE heap[addr]

\* the annotations and the metadata the bag holds
HeldAnnotations ==
    EntriesAt(IF standalone THEN bag.annotations ELSE segment.Annotations)

HeldMetadata == EntriesAt(IF standalone THEN bag.metadata ELSE segment.Metadata)

\* the step in which AddAnnotation or AddMetadata of thread t writes its map
AddStep(t) ==
    /\ tpc[t] \in {"own", "segment"} /\ tpc'[t] # tpc[t]
    /\ top[t].fn \in {"AddAnnotation", "AddMetadata"}

\* the step in which GetAnnotations or GetMetadata of thread t makes its result
GetStep(t) ==
    /\ tpc[t] \in {"own", "segment"} /\ tpc'[t] # tpc[t]
    /\ top[t].fn \in {"GetAnnotations", "GetMetadata"}

\* C28: GetAnnotations and GetMetadata return copies: what the bag holds, and so
\* what a later GetAnnotations or GetMetadata returns, changes only when
\* AddAnnotation or AddMetadata writes, never when a caller adds, changes or
\* deletes entries of a map it was returned.
C28_ReturnsCopies ==
    /\ [][(\A t \in Threads : ~AddStep(t)) =>
             /\ HeldAnnotations' = HeldAnnotations
             /\ HeldMetadata' = HeldMetadata]_vars
    /\ [][\A t \in Threads :
             GetStep(t) =>
                 EntriesAt(tret[t].addr)' =
                     (IF top[t].fn = "GetAnnotations" THEN HeldAnnotations
                      ELSE HeldMetadata)]_vars
    /\ [](\A t \in Threads :
             tret[t].addr # Nil =>
                 tret[t].addr \notin {bag.annotations, bag.metadata, segment.Annotations,
                                      segment.Metadata})

\* C28 witness: the caller of GetAnnotations changed the map it got, which now
\* differs from the annotations the bag holds.
C28_Witness ==
    /\ tpc[1] = "idle"
    /\ top[1].fn = "GetAnnotations"
    /\ top[1].key = "changed"
    /\ tret[1].addr # Nil
    /\ HeldAnnotations # NoEntries
    /\ heap[tret[1].addr] # HeldAnnotations

-----------------------------------------------------------------------------
(* Properties of the locking of the annotation bag, under AccessorSpec *)

\* thread t is inside an accessor
InAccessor(t) == tpc[t] # "idle"

\* C27: any interleaving of SetUser, AddAnnotation, AddMetadata, GetID, GetUser,
\* GetAnnotations and GetMetadata by several threads on one bag, standalone or
\* with a segment, goes on without deadlock: while a thread is inside an accessor
\* some thread inside one can take its next step; a thread that has returned
\* holds no lock; and the fields of the bag and of the segment are read and
\* written only by the thread that holds the lock guarding them.
C27_LockedAccess ==
    /\ []((\E t \in Threads : InAccessor(t)) => ENABLED (\E t \in Threads : Progress(t)))
    /\ [](\A t \in Threads :
            /\ ~InAccessor(t) => (bagM # t /\ segM # t)
            /\ tpc[t] \in {"own", "unlockM"} => bagM = t
            /\ tpc[t] \in {"segment", "unlockSegment"} => segM = t)
    /\ [][/\ (bag' # bag \/ heap'[BagAnnotations] # heap[BagAnnotations]
                         \/ heap'[BagMetadata] # heap[BagMetadata]) =>
                 \E t \in Threads : bagM = t /\ tpc[t] = "own" /\ tpc'[t] = "unlockM"
          /\ (segment' # segment \/ heap'[SegmentAnnotations] # heap[SegmentAnnotations]
                                 \/ heap'[SegmentMetadata] # heap[SegmentMetadata]) =>
                 \E t \in Threads : segM = t /\ tpc[t] = "segment" /\ tpc'[t] # "segment"
          /\ \A t \in Threads :
                 tret'[t] # tret[t] =>
                     \/ tpc[t] = "idle"
                     \/ bagM = t /\ tpc[t] = "own"
                     \/ segM = t /\ tpc[t] = "segment"]_vars

\* C27 witness: on a bag with a segment, one thread is in SetUser and holds the
\* lock of the segment and a.m, while another thread waits for the lock of the
\* segment in GetUser.
C27_Witness ==
    \E t1, t2 \in Threads :
        /\ ~standalone
        /\ top[t1].fn = "SetUser" /\ tpc[t1] = "own"
        /\ segM = t1 /\ bagM = t1
        /\ top[t2].fn = "GetUser" /\ tpc[t2] = "lockSegment"

-----------------------------------------------------------------------------
(* Properties of the environment lock, under EnvLockSpec *)

\* TestEnv e has set a variable and was not cleaned up yet
Holding(e) == te[e].initOnce /\ ~te[e].cleanupOnce

\* C29: from the first Set of a TestEnv until its Cleanup that TestEnv holds the
\* environment lock: in any interleaving of Set and Cleanup calls on several
\* TestEnv values, Cleanup on a TestEnv that never called Set included, the lock
\* is locked, by it, all that time; no other TestEnv changes the environment in
\* between; and the lock is released only by the Cleanup of the TestEnv that
\* acquired it.
C29_LockHeldUntilCleanup ==
    /\ [](\A e \in TestEnvs : Holding(e) => (envLock /\ acquirer = e))
    /\ [][\A e \in TestEnvs :
             (Holding(e) /\ environ' # environ) => elast'.e = e]_vars
    /\ [][(envLock /\ ~envLock') =>
             (elast'.fn = "Cleanup" /\ elast'.e = acquirer)]_vars

-----------------------------------------------------------------------------
(* Properties of Set and Cleanup on one TestEnv, under TestEnvSpec *)

\* C30: after Set and SetAll calls on one TestEnv and its Cleanup, every variable
\* that was set has the state it had before the first Set on it, its value then
\* or not set, however often it was set; and a further Cleanup changes nothing.
C30_CleanupRestores ==
    /\ [](te[1].cleanupOnce =>
             \A n \in EnvNames : sets[1][n] > 0 => environ[n] = before[1][n])
    /\ [][(te[1].cleanupOnce /\ elast'.fn = "Cleanup") =>
             UNCHANGED <<environ, envLock, te, fatal>>]_vars

\* C30 witness: Cleanup has put back a variable that existed and was set more
\* than once, and has unset a variable that did not exist.
C30_Witness ==
    /\ te[1].cleanupOnce
    /\ elast.fn = "Cleanup"
    /\ ~fatal
    /\ \E n1, n2 \in EnvNames :
           /\ sets[1][n1] > 1
           /\ before[1][n1] # NotSet
           /\ environ[n1] = before[1][n1]
           /\ sets[1][n2] > 0
           /\ before[1][n2] = NotSet
           /\ environ[n2] = NotSet

-----------------------------------------------------------------------------
(* Properties of SafeFailingClose, under CloseSpec *)

\* C31: SafeFailingClose closes the closer once, and then: when Close failed and
\* *outErr was nil, *outErr is an error that wraps the close error and nothing is
\* logged; when Close failed and *outErr was not nil, *outErr is unchanged and one
\* entry is logged; when Close succeeded, *outErr is unchanged and nothing is logged.
C31_ClosesOnceSetsOrLogs ==
    [][closes' = closes + 1
       /\ IF lclose'.err # NilErr /\ outErr = NilErr
          THEN /\ outErr' # lclose'.err
               /\ Is(outErr', lclose'.err)
               /\ logEntries' = logEntries
          ELSE IF lclose'.err # NilErr
          THEN /\ outErr' = outErr
               /\ Len(logEntries') = Len(logEntries) + 1
               /\ logEntries'[Len(logEntries')].err = lclose'.err
          ELSE /\ outErr' = outErr
               /\ logEntries' = logEntries]_vars

\* C31 witness: the first failed Close set *outErr, the second one was logged.
C31_Witness ==
    /\ closes = 2
    /\ Len(logEntries) = 1
    /\ lclose.err # NilErr
    /\ lclose.before # NilErr
    /\ outErr = lclose.before
    /\ \E name \in CloserNames, err \in CloseErrs \ {NilErr} :
           outErr = FailedToClose(name, err)

(***************************************************************************)
(* Properties of eAsInt, under ExponentSpec                                *)
(***************************************************************************)

\* C35: for every exponent that decodes to a byte string b of one to eight bytes,
\* eAsInt returns without error the non-negative integer whose unsigned big-endian
\* encoding is b: its 64 bits are b behind zero bytes, and it is not negative
C35_ExponentIsUnsignedValue ==
    (eret.called /\ ekey.decodes /\ Len(ekey.data) \in 1..uint64Len) =>
        /\ eret.err = NilErr
        /\ eret.int = ZeroBytes(uint64Len - Len(ekey.data)) \o ekey.data
        /\ ~Negative(eret.int)

\* C35: an exponent of eight bytes whose first byte has its top bit set is
\* returned as a negative integer, without an error
C35_NegativeExponent ==
    /\ eret.called
    /\ ekey = [decodes |-> TRUE, data |-> <<128, 0, 0, 0, 0, 0, 0, 0>>]
    /\ eret.err = NilErr
    /\ Negative(eret.int)

(***************************************************************************)
(* Properties of the error-logging hook, under SetupSpec                   *)
(***************************************************************************)

\* C34: a server with the hooks of StandardTwirpHooks runs the error-logging hook
\* on every Error event, whether RequestRouted or the handler produced the error:
\* the request adds exactly one record, with the code and the status of the error,
\* the hook returns the context it was given, and the status written is the one of
\* the error; a request without an error adds no record
C34_ErrorLoggedOnce ==
    [][(started' = started + 1 /\ setups[errEvent'.setup].hooks.errorLogging) =>
          /\ (errEvent'.stage = "RequestRouted") = (hookErr'.err # NilErr)
          /\ (errEvent'.stage = "RequestRouted") => errEvent'.err = hookErr'.err
          /\ IF errEvent'.stage # "none"
             THEN /\ errEvent'.err # NilErr
                  /\ Len(logged') = Len(logged) + 1
                  /\ SubSeq(logged', 1, Len(logged)) = logged
                  /\ logged'[Len(logged')].msg = "error response"
                  /\ logged'[Len(logged')].twirp_code = TwirpErrorOf(errEvent'.err).code
                  /\ logged'[Len(logged')].status_code = errEvent'.status
                  /\ errEvent'.ret = errEvent'.ctx
                  /\ errEvent'.status = StatusCode(errEvent'.err)
                  /\ \E org \in Orgs :
                        responsesSent'[<<errEvent'.status, org>>] =
                            responsesSent[<<errEvent'.status, org>>] + 1
             ELSE logged' = logged]_vars

\* C34: a request was refused by the auth hook in RequestRouted after an earlier
\* request failed in its handler, and each left one record
C34_Witness ==
    /\ errEvent.setup \in DOMAIN setups
    /\ setups[errEvent.setup].hooks.errorLogging
    /\ setups[errEvent.setup].hooks.auth # "nil"
    /\ errEvent.stage = "RequestRouted"
    /\ Is(errEvent.err, Unauthenticated)
    /\ Len(logged) = 2
    /\ logged[1].twirp_code # "unauthenticated"
    /\ logged[2].twirp_code = "unauthenticated"
    /\ logged[2].status_code = "401"

(***************************************************************************)
(* Properties of the registrations, under SetupSpec                        *)
(***************************************************************************)

\* C39: when NewTwirpMetricsHooks returns an error, the Registerer holds exactly
\* the metrics it held before the call
C39_FailedSetupRegistersNothing ==
    [][(/\ Len(setups') = Len(setups) + 1
        /\ setups'[Len(setups')].fn = "NewTwirpMetricsHooks"
        /\ setups'[Len(setups')].err # NilErr) => registered' = registered]_vars

(***************************************************************************)
(* The nil key set, under Spec                                             *)
(***************************************************************************)

\* C36: while the cached key set is nil, jwksStaleAfter is still zero and the cache
\* is stale, so that a getKey fetches; the key scan never runs on a nil key set,
\* and with a nil key set every getKey that returned, returned the failure of its
\* fetch
C36_NilKeySetIsStale ==
    /\ jwks.nil => (jwksStaleAfter = 0 /\ IsStale(now, jwksStaleAfter))
    /\ \A c \in Callers :
          /\ pc[c] = "scan" => ~jwks.nil
          /\ (pc[c] = "done" /\ jwks.nil) => ret[c] = getKeyFetchFailed(jwks, kid[c])
          /\ (pc[c] \in {"scan", "done"}) => fetches.started > 0

\* C36: the key set is still nil after a failed fetch returned to one caller, and
\* the next caller is fetching in turn
C36_Witness ==
    /\ jwks.nil
    /\ fetches.failed = 1
    /\ fetches.started = 2
    /\ \E c, d \in Callers :
          /\ pc[c] = "done"
          /\ ret[c].err = "failed to fetch jwks"
          /\ pc[d] = "fetch"

(***************************************************************************)
(* Termination of getKey, under FairSpec                                   *)
(***************************************************************************)

\* C37: every getKey call eventually returns, whatever the other callers do, and a
\* caller that has returned or is outside getKey does not hold the lock
C37_EveryCallReturns ==
    /\ [](\A c \in Callers : pc[c] \in {"idle", "lock", "done"} => m # c)
    /\ \A c \in Callers : (pc[c] \notin {"idle", "done"}) ~> (pc[c] = "done")

\* C37: a caller waits for the lock that another caller, whose fetch failed and
\* who is about to return, has just released
C37_Witness ==
    \E c, d \in Callers :
        /\ pc[c] = "lock"
        /\ pc[d] = "done"
        /\ ret[d].err = "failed to fetch jwks"
        /\ m = 0

(***************************************************************************)
(* Identity and user of a bag, under AccessorSpec                          *)
(***************************************************************************)

\* C32: a standalone bag has its id from ContextWithAnnotations on, no accessor
\* changes it, and GetID returns it; on a bag with a segment GetID returns the
\* TraceID of the segment, GetUser its User, and SetUser writes the user to the
\* segment
C32_IdentityAndUser ==
    [][/\ bag'.id = bag.id
       /\ standalone => bag.id # ""
       /\ segment'.TraceID = segment.TraceID
       /\ \A t \in Threads :
             (tpc[t] \in {"segment", "own"} /\ tpc'[t] # tpc[t]) =>
                 /\ top[t].fn = "GetID" =>
                        tret'[t].val = IF standalone THEN bag.id ELSE segment.TraceID
                 /\ (top[t].fn = "GetUser" /\ ~standalone) => tret'[t].val = segment.User
                 /\ (top[t].fn = "SetUser" /\ tpc[t] = "segment") =>
                        segment'.User = top[t].value.v]_vars

\* C32: on a bag with a segment one thread has set the user, and another thread's
\* GetUser and GetID returned the user and the trace id of the segment
C32_Witness ==
    /\ ~standalone
    /\ segment.User # ""
    /\ \E t, u \in Threads :
          /\ top[t].fn = "GetUser" /\ tpc[t] = "idle" /\ tret[t].val = segment.User
          /\ top[u].fn = "SetUser" /\ tpc[u] = "idle"

(***************************************************************************)
(* Properties of the observed durations, under DurationSpec                *)
(***************************************************************************)

RECURSIVE ResponsesTotal(_, _)
ResponsesTotal(statuses, org) ==
    IF statuses = {} THEN 0
    ELSE LET status == CHOOSE x \in statuses : TRUE
         IN  responsesSent[<<status, org>>] + ResponsesTotal(statuses \ {status}, org)

\* C38: at every moment and for every organisation, rpc_responses_total summed
\* over the statuses and the count of rpc_duration are each at most
\* rpc_requests_total, however the concurrent requests interleave
C38_ResponsesWithinRequests ==
    \A org \in Orgs :
        /\ ResponsesTotal(Statuses, org) <= requestsReceived[org]
        /\ duration[org] <= requestsReceived[org]

\* C38: two requests of one organisation were counted, with the hooks of
\* NewTwirpMetricsHooks and the auth hook, and both were refused; one is answered
\* and observed, the response of the other is not written yet
C38_Witness ==
    /\ metricsHook.kind = "prometheus"
    /\ authHook # "nil"
    /\ \E org \in Orgs :
          /\ requestsReceived[org] = 2
          /\ ResponsesTotal(Statuses, org) = 1
          /\ responsesSent[<<"401", org>>] = 1
          /\ duration[org] = 1
    /\ \E r \in Requests : stage[r] = "failed"

====
